---- MODULE Spec2Model ----
(***************************************************************************)
(* Availability computation of the calendar time manager (src/App.tsx):    *)
(* the date skeleton, the per-event work-hours overlap, the classification *)
(* of events by calendar category and the aggregation into the report that *)
(* processCalendarData publishes with setProcessedData.                    *)
(*                                                                         *)
(* Units.  Instants are minutes since 00:00 UTC of civil day 0.  Civil     *)
(* dates ("YYYY-MM-DD") are day numbers.  Clock strings "HH:MM" are pairs  *)
(* <<hh, mm>>.  timeBufferFactor is one of the select's options 1.0 ..     *)
(* 0.5, kept as its number of tenths (10 .. 5).  Every minute quantity of  *)
(* the daily capacity map and every hour quantity of the report is kept    *)
(* as a number of tenths of a minute, so that x * timeBufferFactor is an   *)
(* integer: a map field holding m minutes is the integer 10 * m, a report  *)
(* field holding h hours is the integer 600 * h.  Floating-point rounding  *)
(* of the products is not modelled.                                        *)
(*                                                                         *)
(* Text (event summaries, project and task names) is a sequence of         *)
(* one-character strings.                                                  *)
(***************************************************************************)
EXTENDS Integers, Sequences, FiniteSets, TLC

----------------------------------------------------------------------------
(* Bounds of the model *)

\* number of events the calendars hold altogether
MaxEvents == 2
\* the last civil day a configuration or an event start may name
MaxDay == 1
\* getDay() of civil day 0 (5: a Friday, so day 1 is a Saturday)
EpochWeekday == 5

----------------------------------------------------------------------------
(* Small helpers *)

Max(a, b) == IF a >= b THEN a ELSE b
Min(a, b) == IF a <= b THEN a ELSE b

\* null, where the other values are strings
Null == "null"

\* a nullable record (processedData): <<>> is null, <<r>> holds r
None == <<>>
Some(r) == <<r>>

\* an event time without dateTime (an all-day event has only a date)
NoDateTime == -1

MinutesPerDay == 24 * 60

----------------------------------------------------------------------------
(* Text: String.prototype.toLowerCase, trim, includes, split *)

LowerChars == <<"a","b","c","d","e","f","g","h","i","j","k","l","m",
                "n","o","p","q","r","s","t","u","v","w","x","y","z">>
UpperChars == <<"A","B","C","D","E","F","G","H","I","J","K","L","M",
                "N","O","P","Q","R","S","T","U","V","W","X","Y","Z">>

IndexIn(c, seq) ==
  IF \E i \in 1..Len(seq) : seq[i] = c
  THEN CHOOSE i \in 1..Len(seq) : seq[i] = c
  ELSE 0

LowerChar(c) == IF IndexIn(c, UpperChars) > 0 THEN LowerChars[IndexIn(c, UpperChars)] ELSE c

\* s.toLowerCase()
ToLowerCase(s) == [i \in 1..Len(s) |-> LowerChar(s[i])]

IsSpace(c) == c = " "

\* s.trim()
Trim(s) ==
  IF \A i \in 1..Len(s) : IsSpace(s[i]) THEN <<>>
  ELSE LET first == CHOOSE i \in 1..Len(s) :
                      ~IsSpace(s[i]) /\ \A j \in 1..(i-1) : IsSpace(s[j])
           last  == CHOOSE i \in 1..Len(s) :
                      ~IsSpace(s[i]) /\ \A j \in (i+1)..Len(s) : IsSpace(s[j])
       IN  SubSeq(s, first, last)

\* s.includes(k)
Includes(s, k) ==
  \E i \in 1..(Len(s) - Len(k) + 1) : SubSeq(s, i, i + Len(k) - 1) = k

\* s.split(':'): the pieces between the colons, all of them
RECURSIVE SplitColon(_)
SplitColon(s) ==
  IF ~Includes(s, <<":">>) THEN <<s>>
  ELSE LET i == CHOOSE k \in 1..Len(s) : s[k] = ":" /\ \A j \in 1..(k-1) : s[j] # ":"
       IN  <<SubSeq(s, 1, i - 1)>> \o SplitColon(SubSeq(s, i + 1, Len(s)))

\* s.split(':', limit): at most `limit` pieces, the rest dropped
SplitColonLimit(s, limit) ==
  LET all == SplitColon(s) IN SubSeq(all, 1, Min(limit, Len(all)))

\* a.localeCompare(b): letters compare case-insensitively first, a space
\* before any letter, a prefix before its extensions; equal otherwise,
\* lower case before upper case at the first difference
CollationRank(c) == IF IsSpace(c) THEN 0
                    ELSE IF c = ":" THEN 1
                    ELSE 1 + IndexIn(LowerChar(c), LowerChars)

RECURSIVE ComparePrimary(_, _)
ComparePrimary(a, b) ==
  IF a = <<>> /\ b = <<>> THEN 0
  ELSE IF a = <<>> THEN -1
  ELSE IF b = <<>> THEN 1
  ELSE IF CollationRank(Head(a)) < CollationRank(Head(b)) THEN -1
  ELSE IF CollationRank(Head(a)) > CollationRank(Head(b)) THEN 1
  ELSE ComparePrimary(Tail(a), Tail(b))

RECURSIVE CompareCase(_, _)
CompareCase(a, b) ==
  IF a = <<>> \/ b = <<>> THEN 0
  ELSE IF Head(a) = Head(b) THEN CompareCase(Tail(a), Tail(b))
  ELSE IF IndexIn(Head(a), LowerChars) > 0 THEN -1 ELSE 1

LocaleCompare(a, b) ==
  IF ComparePrimary(a, b) # 0 THEN ComparePrimary(a, b) ELSE CompareCase(a, b)

----------------------------------------------------------------------------
(* Dates and clocks (Date, Intl.DateTimeFormat, toLocaleString).  A time   *)
(* zone is its IANA name; its offset from UTC is fixed for the days the    *)
(* model covers (no daylight-saving transition falls in them).             *)

ZoneOffset(zone) ==
  CASE zone = "UTC"                 -> 0
    [] zone = "Pacific/Auckland"    -> 13 * 60
    [] zone = "America/Los_Angeles" -> -(8 * 60)

\* formatDateToYMD(date, timezone): the civil date of an instant in a zone
formatDateToYMD(date, timezone) == (date + ZoneOffset(timezone)) \div MinutesPerDay

\* date.toLocaleDateString('en-CA', { timeZone })
toLocaleDateStringCA(date, timezone) == (date + ZoneOffset(timezone)) \div MinutesPerDay

\* date.toLocaleString('en-US', { timeZone, hour12: false, hour: '2-digit',
\* minute: '2-digit' }): "HH:MM".  With hour12: false the en-US locale
\* resolves to the hour cycle h23 ("00:15") or h24 ("24:15"), depending on
\* the ECMA-402 edition the runtime implements.
toLocaleTimeHM(date, timezone, cycle) ==
  LET clock == (date + ZoneOffset(timezone)) % MinutesPerDay
      hh    == clock \div 60
  IN  << IF cycle = "h24" /\ hh = 0 THEN 24 ELSE hh, clock % 60 >>

\* date.toLocaleTimeString('en-US', { hour: 'numeric', minute: '2-digit',
\* timeZone }): "h:MM AM/PM"
toLocaleTimeString12(date, timezone) ==
  LET clock == (date + ZoneOffset(timezone)) % MinutesPerDay
      hh    == clock \div 60
  IN  << IF hh % 12 = 0 THEN 12 ELSE hh % 12, clock % 60,
         IF hh < 12 THEN "AM" ELSE "PM" >>

\* new Date(dateStr + 'T' + "HH:MM:00"): the string is read in the zone of
\* the runtime
LocalDateTime(dateStr, clockMinutes, runtime) ==
  dateStr * MinutesPerDay + clockMinutes - ZoneOffset(runtime)

\* date.getDay() in the zone of the runtime: 0 is Sunday, 6 is Saturday
getDay(date, runtime) ==
  (((date + ZoneOffset(runtime)) \div MinutesPerDay) + EpochWeekday) % 7

\* parseTimeToMinutes("HH:MM")
parseTimeToMinutes(timeStr) == timeStr[1] * 60 + timeStr[2]

\* isWeekend(date)
isWeekend(date, runtime) == getDay(date, runtime) = 0 \/ getDay(date, runtime) = 6

\* getDatesInRange(startDateStr, endDateStr, timezone): local noon of every
\* day from start to end; the timezone argument is not used
RECURSIVE DatesFrom(_, _)
DatesFrom(currentDate, endDate) ==
  IF currentDate <= endDate
  THEN <<currentDate>> \o DatesFrom(currentDate + MinutesPerDay, endDate)
  ELSE <<>>

getDatesInRange(startDateStr, endDateStr, timezone, runtime) ==
  DatesFrom(LocalDateTime(startDateStr, 12 * 60, runtime),
            LocalDateTime(endDateStr, 12 * 60, runtime))

\* calculateWorkHoursOverlap(eventStart, eventEnd, workStartTime, workEndTime,
\* timezone), in minutes; `cycle` is the hour cycle of the runtime
OverlapOfClocks(eventStartMinutes, eventEndMinutes, workStartMinutes, workEndMinutes) ==
  LET overlapStart == Max(eventStartMinutes, workStartMinutes)
      overlapEnd   == Min(eventEndMinutes, workEndMinutes)
  IN  IF overlapStart >= overlapEnd THEN 0 ELSE overlapEnd - overlapStart

calculateWorkHoursOverlap(eventStart, eventEnd, workStartTime, workEndTime, timezone, cycle) ==
  LET eventDateStr      == formatDateToYMD(eventStart, timezone)
      eventStartMinutes == parseTimeToMinutes(toLocaleTimeHM(eventStart, timezone, cycle))
      eventEndMinutes   == parseTimeToMinutes(toLocaleTimeHM(eventEnd, timezone, cycle))
      workStartMinutes  == parseTimeToMinutes(workStartTime)
      workEndMinutes    == parseTimeToMinutes(workEndTime)
      eventDateInTZ     == toLocaleDateStringCA(eventStart, timezone)
  IN  IF eventDateInTZ # eventDateStr THEN 0
      ELSE OverlapOfClocks(eventStartMinutes, eventEndMinutes,
                           workStartMinutes, workEndMinutes)

----------------------------------------------------------------------------
(* Program constants *)

\* PROJECT_COLORS
PROJECT_COLORS == <<"#FF6384", "#36A2EB", "#FFCE56", "#4BC0C0", "#9966FF", "#FF9F40",
                    "#E74C3C", "#8E44AD", "#2ECC71", "#F1C40F", "#3498DB", "#1ABC9C">>

\* TASK_CALENDAR_BLOCK_KEYWORDS: "block", "new event"
TASK_CALENDAR_BLOCK_KEYWORDS ==
  { <<"b","l","o","c","k">>, <<"n","e","w"," ","e","v","e","n","t">> }

\* CalendarCategory
Inactive == "inactive"
Fungible == "fungible"
Task     == "task"

\* the literals of processCalendarData
Unassigned      == <<"U","n","a","s","s","i","g","n","e","d">>
UnnamedTask     == <<"U","n","n","a","m","e","d"," ","T","a","s","k">>
UnnamedEvent    == <<"U","n","n","a","m","e","d"," ","E","v","e","n","t">>
UnknownCalendar == <<"U","n","k","n","o","w","n"," ","C","a","l","e","n","d","a","r">>

\* the denominator of the timeBufferFactor options (1.0, 0.9, ... are 10, 9, ... tenths)
Tenths == 10

----------------------------------------------------------------------------
(* State *)

VARIABLES
  \* the runtime: the hour cycle of its en-US formatter, its own time zone
  hourCycle, runtimeZone,
  \* React state of App
  timeConfig, allCalendars, calendarCategories,
  isSignedIn, isLoading, error, processedData,
  \* what the calendar API holds: calendar id -> set of events
  calendarEvents,
  \* the run of processCalendarData in progress: where it is, and its locals
  pc, timeMin, timeMax, datesInRange, dailyAvailabilityMap, relevantEvents,
  calIndex, eventIndex,
  projectTaskMap, fungibleTimeMap, dailyDetailsMap, projectColorMap, nextColorIndex,
  \* history: the reports of the latest two completed runs, oldest first
  publishedReports,
  \* a single call of calculateWorkHoursOverlap: its arguments and its result
  overlapArgs, overlapResult,
  \* calls of getProjectColor: the names asked so far in the order of their
  \* first call, and the latest call with the color it returned
  colorNames, colorCall,
  \* the calendar service (module state of googleCalendarService), the two
  \* localStorage items it keeps, the clock it reads, the token request in
  \* progress and the outcome of the latest listCalendars / listEvents
  gapiInstance, tokenClient, accessToken, serviceSignedIn, authStatusCallback,
  storedToken, storedExpiry, now, tokenRequested, serviceCall,
  \* localStorage item calendarTimeManager_timeConfig
  savedTimeConfig,
  \* the app on screen: the state of the latest render, the auto-run timer,
  \* the runs of processCalendarData in flight, and the inputs of the run
  \* whose failure was reported last (cleared by a user trigger or a change
  \* of an input)
  rendered, timer, runs, lastFailure

envVars   == <<hourCycle, runtimeZone>>
inputVars == <<timeConfig, allCalendars, calendarCategories, calendarEvents>>
appVars   == <<isSignedIn, isLoading, error, processedData>>
runVars   == <<pc, timeMin, timeMax, datesInRange, dailyAvailabilityMap, relevantEvents,
               calIndex, eventIndex, projectTaskMap, fungibleTimeMap, dailyDetailsMap,
               projectColorMap, nextColorIndex>>
callVars  == <<overlapArgs, overlapResult, colorNames, colorCall>>
serviceVars == <<gapiInstance, tokenClient, accessToken, serviceSignedIn, authStatusCallback,
                 storedToken, storedExpiry, now, tokenRequested, serviceCall>>
shellVars == <<rendered, timer, runs, lastFailure>>
aroundVars == <<serviceVars, savedTimeConfig, shellVars>>
vars      == <<envVars, inputVars, appVars, runVars, publishedReports, callVars, aroundVars>>

----------------------------------------------------------------------------
(* Ordered maps (a JavaScript object used as a record of entries keeps the *)
(* insertion order of its keys): sequences of entries with a key field     *)

KeyIndex(entries, key) ==
  IF \E i \in 1..Len(entries) : entries[i].key = key
  THEN CHOOSE i \in 1..Len(entries) : entries[i].key = key
  ELSE 0

HasKey(entries, key) == KeyIndex(entries, key) > 0

\* Array.prototype.sort is stable: an element is inserted behind the
\* elements that do not compare after it

\* projectTasks.sort((a,b) => a.project.localeCompare(b.project) ||
\*                            a.task.localeCompare(b.task))
ProjectTaskBefore(a, b) ==
  IF LocaleCompare(a.project, b.project) # 0
  THEN LocaleCompare(a.project, b.project) < 0
  ELSE LocaleCompare(a.task, b.task) < 0

RECURSIVE InsertProjectTask(_, _)
InsertProjectTask(sorted, x) ==
  IF sorted = <<>> THEN <<x>>
  ELSE IF ProjectTaskBefore(x, Head(sorted)) THEN <<x>> \o sorted
  ELSE <<Head(sorted)>> \o InsertProjectTask(Tail(sorted), x)

RECURSIVE SortProjectTasks(_)
SortProjectTasks(seq) ==
  IF seq = <<>> THEN <<>>
  ELSE InsertProjectTask(SortProjectTasks(SubSeq(seq, 1, Len(seq) - 1)), seq[Len(seq)])

\* summaries.sort((a,b) => b.totalHours - a.totalHours)
RECURSIVE InsertByHours(_, _)
InsertByHours(sorted, x) ==
  IF sorted = <<>> THEN <<x>>
  ELSE IF x.totalHours > Head(sorted).totalHours THEN <<x>> \o sorted
  ELSE <<Head(sorted)>> \o InsertByHours(Tail(sorted), x)

RECURSIVE SortByHoursDesc(_)
SortByHoursDesc(seq) ==
  IF seq = <<>> THEN <<>>
  ELSE InsertByHours(SortByHoursDesc(SubSeq(seq, 1, Len(seq) - 1)), seq[Len(seq)])

----------------------------------------------------------------------------
(* processCalendarData: the pieces of one run *)

EmptyMap == [k \in {} |-> Null]

\* the work window of a day: the weekend times or the weekday times
WindowOf(config, isWeekendDay) ==
  IF isWeekendDay
  THEN [startTime |-> config.weekendStartTime, endTime |-> config.weekendEndTime]
  ELSE [startTime |-> config.weekdayStartTime, endTime |-> config.weekdayEndTime]

\* the entry dailyAvailabilityMap[dateStr] of a day of the range, in tenths
\* of a minute: dailyWorkMinutes is the window scaled by the buffer factor,
\* totalMinutes is dailyWorkMinutes divided by the factor again
DayEntry(date, config, runtime) ==
  LET window == WindowOf(config, isWeekend(date, runtime))
      dailyWorkMinutes ==
        (parseTimeToMinutes(window.endTime) - parseTimeToMinutes(window.startTime))
          * config.timeBufferFactor
  IN  [ availableMinutes |-> Max(0, dailyWorkMinutes),
        totalMinutes     |-> Max(0, (dailyWorkMinutes * Tenths) \div config.timeBufferFactor),
        fungibleMinutes  |-> 0,
        taskMinutes      |-> 0 ]

\* datesInRange.forEach(date => dailyAvailabilityMap[dateStr] = ...): a later
\* date of the same dateStr overwrites an earlier one
RECURSIVE DailyMapOf(_, _, _)
DailyMapOf(dates, config, runtime) ==
  IF dates = <<>> THEN EmptyMap
  ELSE LET n    == Len(dates)
           date == dates[n]
       IN  (formatDateToYMD(date, config.timezone) :> DayEntry(date, config, runtime))
             @@ DailyMapOf(SubSeq(dates, 1, n - 1), config, runtime)

\* new Date(date.toLocaleString('en-US', { timeZone })): the wall clock the
\* instant shows in the zone, read back as a time of the runtime's zone
ReadBackInRuntime(date, timezone, runtime) ==
  date + ZoneOffset(timezone) - ZoneOffset(runtime)

\* timeMin: from `${startDate}T00:00:00`
TimeMinOf(config, runtime) ==
  LET startDateTime == LocalDateTime(config.startDate, 0, runtime)
      startInTZ     == ReadBackInRuntime(startDateTime, config.timezone, runtime)
  IN  startDateTime - (startDateTime - startInTZ)

\* timeMax: from `${endDate}T23:59:59`, plus 24 hours; the minute it lies in
TimeMaxOf(config, runtime) ==
  LET endDateTime == LocalDateTime(config.endDate, 23 * 60 + 59, runtime)
      endInTZ     == ReadBackInRuntime(endDateTime, config.timezone, runtime)
  IN  endDateTime - (endDateTime - endInTZ) + MinutesPerDay

\* events.list({ calendarId, timeMin, timeMax, singleEvents, orderBy: 'startTime' }):
\* the events of the calendar that end after timeMin and start before timeMax
\* (timeMax carries 59 seconds), by start time; all-day events come first
StartKey(e) == IF e.start = NoDateTime THEN -1 ELSE e.start

RECURSIVE OrderByStart(_)
OrderByStart(events) ==
  IF events = {} THEN <<>>
  ELSE LET first == CHOOSE e \in events :
                      \A o \in events :
                        \/ StartKey(e) < StartKey(o)
                        \/ StartKey(e) = StartKey(o) /\ e.id <= o.id
       IN  <<first>> \o OrderByStart(events \ {first})

InTimeRange(e, tMin, tMax) ==
  \/ e.start = NoDateTime \/ e.end = NoDateTime
  \/ e.end > tMin /\ e.start <= tMax

listEvents(calendarId, tMin, tMax) ==
  OrderByStart({ e \in calendarEvents[calendarId] : InTimeRange(e, tMin, tMax) })

\* events.forEach(event => relevantEvents.push({ ...event, __calendarId, __calendarCategory }))
Tagged(events, calendarId, category) ==
  [ i \in 1..Len(events) |->
      [ id |-> events[i].id, summary |-> events[i].summary,
        start |-> events[i].start, end |-> events[i].end,
        calendarId |-> calendarId, category |-> category ] ]

\* mutant of IsActive: the events of every calendar are fetched
IsActiveAny(category) == TRUE

\* the calendars of the loop whose category is Fungible or Task, from index i on
IsActive(category) == category = Fungible \/ category = Task

CategoryOf(calendarId) ==
  IF calendarId \in DOMAIN calendarCategories THEN calendarCategories[calendarId] ELSE Null

ActiveFrom(i) ==
  { k \in i..Len(allCalendars) : IsActive(CategoryOf(allCalendars[k].id)) }

NextActive(i) == CHOOSE k \in ActiveFrom(i) : \A j \in ActiveFrom(i) : k <= j

\* the maps of the run are plain objects ({}): a lookup map[name] of a name
\* that is a member of Object.prototype finds the inherited member, which is
\* truthy, although the map holds no entry of that name (three of the members)
InheritedKeys ==
  { <<"c","o","n","s","t","r","u","c","t","o","r">>,
    <<"t","o","S","t","r","i","n","g">>,
    <<"v","a","l","u","e","O","f">> }

\* what such a lookup returns: a function, not a color
InheritedMember == "[Function]"

\* getProjectColor(project): the color of a name, allocating the next color
\* of the palette on its first call; returns the color with the map and index
getProjectColor(colorMap, colorIndex, project) ==
  IF project \in DOMAIN colorMap
  THEN [ color |-> colorMap[project], colorMap |-> colorMap, colorIndex |-> colorIndex ]
  ELSE IF project \in InheritedKeys
  THEN [ color |-> InheritedMember, colorMap |-> colorMap, colorIndex |-> colorIndex ]
  ELSE LET color == PROJECT_COLORS[(colorIndex % Len(PROJECT_COLORS)) + 1]
       IN  [ color |-> color,
             colorMap |-> (project :> color) @@ colorMap,
             colorIndex |-> colorIndex + 1 ]

\* event.summary?.toLowerCase() || "" (a missing summary is the empty text:
\* the code reads the summary only through ?. and ||, which treat both alike)
SummaryLower(summary) == ToLowerCase(summary)

\* mutant of IsBlocked: the summary is searched as written, not lower-cased
IsBlockedCaseSensitive(summary) ==
  \E keyword \in TASK_CALENDAR_BLOCK_KEYWORDS : Includes(summary, keyword)

\* TASK_CALENDAR_BLOCK_KEYWORDS.some(keyword => eventSummaryLower.includes(keyword))
IsBlocked(summary) ==
  \E keyword \in TASK_CALENDAR_BLOCK_KEYWORDS : Includes(SummaryLower(summary), keyword)

\* project and task of a task event
ProjectTaskOf(summary) ==
  IF Includes(summary, <<":">>)
  THEN LET parts == SplitColonLimit(summary, 2)
       IN  [ project |-> Trim(parts[1]), task |-> Trim(parts[2]) ]
  ELSE IF summary # <<>>
  THEN [ project |-> summary, task |-> summary ]
  ELSE [ project |-> Unassigned, task |-> UnnamedTask ]

\* `${normalizedProject}::${normalizedTask}`
TaskKey(project, task) ==
  ToLowerCase(Trim(project)) \o <<":", ":">> \o ToLowerCase(Trim(task))

\* the hours an event adds to its project/task entry: eventDurationMinutes / 60
TaskHours(eventStart, eventEnd) == (eventEnd - eventStart) * Tenths

\* the hours an event adds to its calendar's fungible entry
FungibleHours(workHoursOverlapMinutes) == workHoursOverlapMinutes * Tenths

\* the deduction of an overlap from a day's entry
DeductFungible(entry, workHoursOverlapMinutes) ==
  [ entry EXCEPT !.fungibleMinutes  = @ + workHoursOverlapMinutes * Tenths,
                 !.availableMinutes = @ - workHoursOverlapMinutes * Tenths ]

\* mutant of DeductTask: the overlap is counted but not taken from the available time
DeductTaskCountOnly(entry, workHoursOverlapMinutes) ==
  [ entry EXCEPT !.taskMinutes = @ + workHoursOverlapMinutes * Tenths ]

DeductTask(entry, workHoursOverlapMinutes) ==
  [ entry EXCEPT !.taskMinutes      = @ + workHoursOverlapMinutes * Tenths,
                 !.availableMinutes = @ - workHoursOverlapMinutes * Tenths ]

----------------------------------------------------------------------------
(* processCalendarData: the body of relevantEvents.forEach for one event.  *)
(* `run` holds the locals of the run: daily (dailyAvailabilityMap),        *)
(* projectTasks (projectTaskMap), fungible (fungibleTimeMap), details      *)
(* (dailyDetailsMap), colors (projectColorMap), colorIndex (nextColorIndex)*)

\* allCalendars.find(c => c.id === event.__calendarId)
CalendarFound(calendarId) ==
  \E i \in 1..Len(allCalendars) : allCalendars[i].id = calendarId

CalendarById(calendarId) ==
  allCalendars[CHOOSE i \in 1..Len(allCalendars) : allCalendars[i].id = calendarId]

\* the overlap of an event with the work hours of the day it starts on; the
\* weekend test reads the event's start in the zone of the runtime
EventOverlap(event, config, runtime, cycle) ==
  LET window == WindowOf(config, isWeekend(event.start, runtime))
  IN  calculateWorkHoursOverlap(event.start, event.end, window.startTime,
                                window.endTime, config.timezone, cycle)

\* the Fungible branch
AfterFungible(run, event, eventDateStr, overlap) ==
  LET calendar == CalendarById(event.calendarId)
      daily1   == IF overlap > 0
                  THEN [ run.daily EXCEPT ![eventDateStr] = DeductFungible(@, overlap) ]
                  ELSE run.daily
      known    == HasKey(run.fungible, event.calendarId)
      picked   == getProjectColor(run.colors, run.colorIndex, calendar.summary)
      entries  == IF known THEN run.fungible
                  ELSE Append(run.fungible,
                              [ key |-> event.calendarId,
                                calendarSummary |-> calendar.summary,
                                totalHours |-> 0, color |-> picked.color ])
      at       == KeyIndex(entries, event.calendarId)
  IN  IF ~CalendarFound(event.calendarId) THEN [ run EXCEPT !.daily = daily1 ]
      ELSE [ run EXCEPT
               !.daily      = daily1,
               !.fungible   = [ entries EXCEPT ![at].totalHours = @ + FungibleHours(overlap) ],
               !.colors     = IF known THEN @ ELSE picked.colorMap,
               !.colorIndex = IF known THEN @ ELSE picked.colorIndex ]

\* the Task branch for an event that is not blocked
AfterTask(run, event, eventDateStr, overlap) ==
  LET daily1  == IF overlap > 0
                 THEN [ run.daily EXCEPT ![eventDateStr] = DeductTask(@, overlap) ]
                 ELSE run.daily
      pt      == ProjectTaskOf(event.summary)
      taskKey == TaskKey(pt.project, pt.task)
      known   == HasKey(run.projectTasks, taskKey)
      picked  == getProjectColor(run.colors, run.colorIndex, pt.project)
      entries == IF known THEN run.projectTasks
                 ELSE Append(run.projectTasks,
                             [ key |-> taskKey, project |-> pt.project, task |-> pt.task,
                               hours |-> 0, color |-> picked.color ])
      at      == KeyIndex(entries, taskKey)
  IN  [ run EXCEPT
          !.daily        = daily1,
          !.projectTasks = [ entries EXCEPT ![at].hours = @ + TaskHours(event.start, event.end) ],
          !.colors       = IF known THEN @ ELSE picked.colorMap,
          !.colorIndex   = IF known THEN @ ELSE picked.colorIndex ]

\* mutant of ImpactType: a task event outside the work hours is ignored
ImpactTypeByOverlap(event, overlap) ==
  IF overlap > 0
  THEN IF event.category = Fungible THEN "reduces_available"
       ELSE IF event.category = Task /\ ~IsBlocked(event.summary) THEN "task_tracked"
       ELSE "ignored"
  ELSE "ignored"

\* impactType of an event
ImpactType(event, overlap) ==
  IF event.category = Fungible
  THEN IF overlap > 0 THEN "reduces_available" ELSE "ignored"
  ELSE IF event.category = Task
  THEN IF IsBlocked(event.summary) THEN "ignored" ELSE "task_tracked"
  ELSE "ignored"

\* dailyDetailsMap[eventDateStr].push({...})
DetailRow(event, config, impactType) ==
  LET calendar == CalendarById(event.calendarId)
  IN  [ summary      |-> IF event.summary = <<>> THEN UnnamedEvent ELSE event.summary,
        calendarName |-> IF ~CalendarFound(event.calendarId) \/ calendar.summary = <<>>
                         THEN UnknownCalendar ELSE calendar.summary,
        category     |-> event.category,
        startTime    |-> toLocaleTimeString12(event.start, config.timezone),
        endTime      |-> toLocaleTimeString12(event.end, config.timezone),
        duration     |-> TaskHours(event.start, event.end),
        impactType   |-> impactType ]

AddDetail(details, eventDateStr, row) ==
  IF eventDateStr \in DOMAIN details
  THEN [ details EXCEPT ![eventDateStr] = Append(@, row) ]
  ELSE (eventDateStr :> <<row>>) @@ details

\* mutant of LacksDateTime: only the start is looked at
LacksStartDateTime(event) == event.start = NoDateTime

\* !event.start?.dateTime || !event.end?.dateTime
LacksDateTime(event) == event.start = NoDateTime \/ event.end = NoDateTime

\* one event of relevantEvents.forEach
AfterEvent(run, event, config, runtime, cycle) ==
  IF LacksDateTime(event) THEN run
  ELSE LET eventDateStr == formatDateToYMD(event.start, config.timezone)
       IN  IF eventDateStr \notin DOMAIN run.daily THEN run
           ELSE LET overlap == EventOverlap(event, config, runtime, cycle)
                    impact  == ImpactType(event, overlap)
                    run1    == IF event.category = Fungible
                               THEN AfterFungible(run, event, eventDateStr, overlap)
                               ELSE IF event.category = Task /\ ~IsBlocked(event.summary)
                               THEN AfterTask(run, event, eventDateStr, overlap)
                               ELSE run
                IN  IF impact # "ignored"
                    THEN [ run1 EXCEPT !.details =
                             AddDetail(@, eventDateStr, DetailRow(event, config, impact)) ]
                    ELSE run1

----------------------------------------------------------------------------
(* processCalendarData: the report *)

\* Intl.DateTimeFormat('en-US', { month, day, weekday, timeZone }).format(date)
DisplayDate(date, timezone) ==
  LET day == formatDateToYMD(date, timezone)
  IN  [ day |-> day, weekday |-> (day + EpochWeekday) % 7 ]

\* mutant of DailyAvailabilityRow: availableHours is not floored at 0
DailyAvailabilityRowUnclamped(date, daily, config) ==
  LET data == daily[formatDateToYMD(date, config.timezone)]
  IN  [ date           |-> DisplayDate(date, config.timezone),
        availableHours |-> data.availableMinutes,
        totalHours     |-> Max(0, data.totalMinutes - data.fungibleMinutes) ]

\* one row of finalDailyAvailability, in 1/600 hour
DailyAvailabilityRow(date, daily, config) ==
  LET data == daily[formatDateToYMD(date, config.timezone)]
      availableAfterFungible == Max(0, data.totalMinutes - data.fungibleMinutes)
  IN  [ date           |-> DisplayDate(date, config.timezone),
        availableHours |-> Max(0, data.availableMinutes),
        totalHours     |-> availableAfterFungible ]

DailyDetailsRow(date, details, config) ==
  LET dateStr == formatDateToYMD(date, config.timezone)
  IN  [ date   |-> DisplayDate(date, config.timezone),
        events |-> IF dateStr \in DOMAIN details THEN details[dateStr] ELSE <<>> ]

\* projectSummariesMap: the hours of the project/task entries by project
\* name; for a project named like a member of Object.prototype the lookup
\* finds the member, no entry is made and the hours land on the member
RECURSIVE ProjectSummariesOf(_)
ProjectSummariesOf(projectTaskData) ==
  IF projectTaskData = <<>> THEN <<>>
  ELSE LET n    == Len(projectTaskData)
           pt   == projectTaskData[n]
           rest == ProjectSummariesOf(SubSeq(projectTaskData, 1, n - 1))
           seen == IF HasKey(rest, pt.project) THEN rest
                   ELSE Append(rest, [ key |-> pt.project, project |-> pt.project,
                                       totalHours |-> 0, color |-> pt.color ])
       IN  IF pt.project \in InheritedKeys THEN rest
           ELSE [ seen EXCEPT ![KeyIndex(seen, pt.project)].totalHours = @ + pt.hours ]

----------------------------------------------------------------------------
(* The inputs the model draws from *)

\* runtimes and configured zones: <<hour cycle, zone of the runtime, timezone>>
Environments ==
  { <<"h23", "UTC", "UTC">>, <<"h24", "UTC", "UTC">>,
    <<"h23", "America/Los_Angeles", "Pacific/Auckland">> }

\* the second weekday window differs in length from the weekend window; the
\* last window of each set has no positive duration
WeekdayWindows == { << <<9, 0>>, <<17, 0>> >>, << <<0, 0>>, <<6, 0>> >>,
                    << <<17, 0>>, <<9, 0>> >> }
WeekendWindows == { << <<10, 0>>, <<18, 0>> >>, << <<10, 0>>, <<10, 0>> >> }
BufferFactors  == { 10, 8 }
DateRanges     == { <<0, MaxDay>>, <<MaxDay, 0>> }

TimeConfigs(zone) ==
  { [ startDate |-> d[1], endDate |-> d[2],
      weekdayStartTime |-> wd[1], weekdayEndTime |-> wd[2],
      weekendStartTime |-> we[1], weekendEndTime |-> we[2],
      timezone |-> zone, timeBufferFactor |-> f ] :
    d \in DateRanges, wd \in WeekdayWindows, we \in WeekendWindows, f \in BufferFactors }

\* the calendars of the account, as fetchUserCalendars sorts them by summary
Calendars == << [ id |-> "cal1", summary |-> <<"G","y","m">> ],
                [ id |-> "cal2", summary |-> <<"W","o","r","k">> ] >>

CategoryChoices ==
  { ("cal1" :> Fungible) @@ ("cal2" :> Task),
    ("cal1" :> Task)     @@ ("cal2" :> Inactive),
    ("cal1" :> Fungible) @@ ("cal2" :> Fungible) }

\* event summaries
SummaryChoices ==
  { <<"A","b",":"," ","c","d">>, <<"a","b",":","C","D"," ">>,
    <<"a","b",":"," ","c","d",":","e">>,
    <<"B","l","o","c","k">>, <<"N","e","w"," ","E","v","e","n","t">>,
    <<"G","y","m">> }

\* event times, as <<start, end>> in minutes of UTC from day 0 on; the last
\* is an all-day event, which has no dateTime, the one before lacks its end
At(day, hh, mm) == day * MinutesPerDay + hh * 60 + mm

TimeChoices ==
  { <<At(0, 10, 0), At(0, 11, 0)>>,    \* inside the weekday window
    <<At(0, 8, 0),  At(0, 18, 0)>>,    \* around the weekday window
    <<At(0, 8, 0),  At(1, 2, 0)>>,     \* around it, and past midnight
    <<At(0, 0, 15), At(0, 1, 0)>>,     \* in the first hour of the day
    <<At(1, 10, 0), At(1, 12, 0)>>,    \* on the second day
    <<At(1, 12, 0), At(1, 13, 0)>>,    \* on the second day, the third in Auckland
    <<At(0, 10, 0), NoDateTime>>,      \* malformed: no end dateTime
    <<NoDateTime, NoDateTime>> }

\* the events the calendars may hold: on cal1 one event of each time and a
\* second event of the first time, on cal2 one event of each summary
EventPool ==
  { [ id |-> 1, calendarId |-> "cal1", summary |-> <<"G","y","m">>,
      start |-> t[1], end |-> t[2] ] : t \in TimeChoices }
  \cup
  { [ id |-> 2, calendarId |-> "cal1", summary |-> <<"G","y","m">>,
      start |-> At(0, 10, 0), end |-> At(0, 11, 0) ] }
  \cup
  { [ id |-> 3, calendarId |-> "cal2", summary |-> sm,
      start |-> At(0, 10, 0), end |-> At(0, 11, 0) ] : sm \in SummaryChoices }

EventSets == { es \in SUBSET EventPool : Cardinality(es) <= MaxEvents }

EventsOfCalendar(es) ==
  [ c \in {"cal1", "cal2"} |-> { e \in es : e.calendarId = c } ]

----------------------------------------------------------------------------
(* The run of processCalendarData is studied with the service signed in,   *)
(* holding a token that does not expire meanwhile, and nothing else going  *)
(* on around it                                                            *)

AroundAtRest ==
  /\ gapiInstance = TRUE
  /\ tokenClient = TRUE
  /\ accessToken = "token1"
  /\ serviceSignedIn = TRUE
  /\ authStatusCallback = TRUE
  /\ storedToken = "token1"
  /\ storedExpiry = 1
  /\ now = 0
  /\ tokenRequested = FALSE
  /\ serviceCall = None
  /\ savedTimeConfig = None
  /\ rendered = None
  /\ timer = None
  /\ runs = <<>>
  /\ lastFailure = None

----------------------------------------------------------------------------
(* Initial state: the app is signed in, its calendars are listed and       *)
(* categorised, and no run has started                                     *)

Init ==
  /\ \E env \in Environments :
       /\ hourCycle = env[1]
       /\ runtimeZone = env[2]
       /\ timeConfig \in TimeConfigs(env[3])
  /\ allCalendars = Calendars
  /\ calendarCategories \in CategoryChoices
  /\ \E es \in EventSets : calendarEvents = EventsOfCalendar(es)
  /\ isSignedIn = TRUE
  /\ isLoading = FALSE
  /\ error = Null
  /\ processedData = None
  /\ pc = "idle"
  /\ timeMin = 0
  /\ timeMax = 0
  /\ datesInRange = <<>>
  /\ dailyAvailabilityMap = EmptyMap
  /\ relevantEvents = <<>>
  /\ calIndex = 1
  /\ eventIndex = 1
  /\ projectTaskMap = <<>>
  /\ fungibleTimeMap = <<>>
  /\ dailyDetailsMap = EmptyMap
  /\ projectColorMap = EmptyMap
  /\ nextColorIndex = 0
  /\ publishedReports = None
  /\ overlapArgs = None
  /\ overlapResult = None
  /\ colorNames = <<>>
  /\ colorCall = None
  /\ AroundAtRest

----------------------------------------------------------------------------
(* processCalendarData *)

WeekdayWorkMinutes(config) ==
  parseTimeToMinutes(config.weekdayEndTime) - parseTimeToMinutes(config.weekdayStartTime)
\* mutant of WeekendWorkMinutes: a weekend window of end = start passes the check
WeekendWorkMinutesOffByOne(config) ==
  parseTimeToMinutes(config.weekendEndTime) - parseTimeToMinutes(config.weekendStartTime) + 1

WeekendWorkMinutes(config) ==
  parseTimeToMinutes(config.weekendEndTime) - parseTimeToMinutes(config.weekendStartTime)

\* mutant of FreshColorIndex: the color index outlives the run
StaleColorIndex == nextColorIndex

\* the values the locals declared after the fetch loop start with
FreshProjectTaskMap  == <<>>
FreshFungibleTimeMap == <<>>
FreshDailyDetailsMap == EmptyMap
FreshProjectColorMap == EmptyMap
FreshColorIndex      == 0

\* Run Analysis (or the auto-run timer) calls processCalendarData: the code
\* up to the first await of listEvents
StartRun ==
  /\ pc = "idle"
  /\ IF ~isSignedIn
     THEN /\ error' = "Please sign in first."
          /\ UNCHANGED <<isLoading, processedData, runVars>>
     ELSE IF WeekdayWorkMinutes(timeConfig) <= 0
     THEN /\ error' = "Weekday end time must be after start time."
          /\ isLoading' = FALSE
          /\ processedData' = None
          /\ UNCHANGED runVars
     ELSE IF WeekendWorkMinutes(timeConfig) <= 0
     THEN /\ error' = "Weekend end time must be after start time."
          /\ isLoading' = FALSE
          /\ processedData' = None
          /\ UNCHANGED runVars
     ELSE LET dates == getDatesInRange(timeConfig.startDate, timeConfig.endDate,
                                       timeConfig.timezone, runtimeZone)
          IN  /\ isLoading' = TRUE
              /\ error' = Null
              /\ processedData' = None
              /\ timeMin' = TimeMinOf(timeConfig, runtimeZone)
              /\ timeMax' = TimeMaxOf(timeConfig, runtimeZone)
              /\ datesInRange' = dates
              /\ dailyAvailabilityMap' = DailyMapOf(dates, timeConfig, runtimeZone)
              /\ relevantEvents' = <<>>
              /\ calIndex' = 1
              /\ pc' = "fetch"
              /\ UNCHANGED <<eventIndex, projectTaskMap, fungibleTimeMap, dailyDetailsMap,
                             projectColorMap, nextColorIndex>>
  /\ UNCHANGED <<aroundVars, envVars, inputVars, isSignedIn, publishedReports, callVars>>

\* an awaited listEvents of the next Fungible or Task calendar resolves
FetchEvents ==
  /\ pc = "fetch"
  /\ ActiveFrom(calIndex) # {}
  /\ LET k   == NextActive(calIndex)
         cal == allCalendars[k]
     IN  /\ relevantEvents' = relevantEvents \o
                Tagged(listEvents(cal.id, timeMin, timeMax), cal.id, CategoryOf(cal.id))
         /\ calIndex' = k + 1
  /\ UNCHANGED <<aroundVars, envVars, inputVars, appVars, publishedReports, callVars,
                 pc, timeMin, timeMax, datesInRange, dailyAvailabilityMap, eventIndex,
                 projectTaskMap, fungibleTimeMap, dailyDetailsMap, projectColorMap,
                 nextColorIndex>>

\* an awaited listEvents throws: catch sets the error, finally clears isLoading
FetchFails ==
  /\ pc = "fetch"
  /\ ActiveFrom(calIndex) # {}
  /\ error' = "Failed to process data"
  /\ isLoading' = FALSE
  /\ pc' = "idle"
  /\ UNCHANGED <<aroundVars, envVars, inputVars, isSignedIn, processedData, publishedReports, callVars,
                 timeMin, timeMax, datesInRange, dailyAvailabilityMap, relevantEvents,
                 calIndex, eventIndex, projectTaskMap, fungibleTimeMap, dailyDetailsMap,
                 projectColorMap, nextColorIndex>>

\* the loop over the calendars is over: the maps of the run are declared
BeginProcessing ==
  /\ pc = "fetch"
  /\ ActiveFrom(calIndex) = {}
  /\ projectTaskMap' = FreshProjectTaskMap
  /\ fungibleTimeMap' = FreshFungibleTimeMap
  /\ dailyDetailsMap' = FreshDailyDetailsMap
  /\ projectColorMap' = FreshProjectColorMap
  /\ nextColorIndex' = FreshColorIndex
  /\ eventIndex' = 1
  /\ pc' = "process"
  /\ UNCHANGED <<aroundVars, envVars, inputVars, appVars, publishedReports, callVars,
                 timeMin, timeMax, datesInRange, dailyAvailabilityMap, relevantEvents,
                 calIndex>>

RunLocals ==
  [ daily |-> dailyAvailabilityMap, projectTasks |-> projectTaskMap,
    fungible |-> fungibleTimeMap, details |-> dailyDetailsMap,
    colors |-> projectColorMap, colorIndex |-> nextColorIndex ]

\* relevantEvents.forEach: the next event
ProcessEvent ==
  /\ pc = "process"
  /\ eventIndex <= Len(relevantEvents)
  /\ LET after == AfterEvent(RunLocals, relevantEvents[eventIndex], timeConfig,
                             runtimeZone, hourCycle)
     IN  /\ dailyAvailabilityMap' = after.daily
         /\ projectTaskMap' = after.projectTasks
         /\ fungibleTimeMap' = after.fungible
         /\ dailyDetailsMap' = after.details
         /\ projectColorMap' = after.colors
         /\ nextColorIndex' = after.colorIndex
  /\ eventIndex' = eventIndex + 1
  /\ UNCHANGED <<aroundVars, envVars, inputVars, appVars, publishedReports, callVars,
                 pc, timeMin, timeMax, datesInRange, relevantEvents, calIndex>>

\* the report handed to setProcessedData
Report ==
  [ dailyAvailability |->
      [ i \in 1..Len(datesInRange) |->
          DailyAvailabilityRow(datesInRange[i], dailyAvailabilityMap, timeConfig) ],
    projectTasks        |-> SortProjectTasks(projectTaskMap),
    projectSummaries    |-> SortByHoursDesc(ProjectSummariesOf(projectTaskMap)),
    fungibleTimeSummary |-> SortByHoursDesc(fungibleTimeMap),
    dailyDetails |->
      [ i \in 1..Len(datesInRange) |->
          DailyDetailsRow(datesInRange[i], dailyDetailsMap, timeConfig) ] ]

LatestTwo(reports) ==
  IF Len(reports) <= 2 THEN reports ELSE SubSeq(reports, Len(reports) - 1, Len(reports))

\* all events are processed: the report is built and published, finally
\* clears isLoading
Publish ==
  /\ pc = "process"
  /\ eventIndex > Len(relevantEvents)
  /\ processedData' = Some(Report)
  /\ publishedReports' = LatestTwo(Append(publishedReports, Report))
  /\ isLoading' = FALSE
  /\ pc' = "idle"
  /\ UNCHANGED <<aroundVars, envVars, inputVars, isSignedIn, error, callVars,
                 timeMin, timeMax, datesInRange, dailyAvailabilityMap, relevantEvents,
                 calIndex, eventIndex, projectTaskMap, fungibleTimeMap, dailyDetailsMap,
                 projectColorMap, nextColorIndex>>

Next ==
  \/ StartRun
  \/ FetchEvents
  \/ FetchFails
  \/ BeginProcessing
  \/ ProcessEvent
  \/ Publish

Spec == Init /\ [][Next]_vars

----------------------------------------------------------------------------
(* calculateWorkHoursOverlap on its own: one call with arguments drawn     *)
(* from the instants of the model's days on a quarter-hour grid            *)

OverlapInstants == { At(d, hh, mm) : d \in 0..MaxDay, hh \in 0..23, mm \in {0, 15} }

OverlapWindows == { << <<9, 0>>, <<17, 0>> >>, << <<0, 0>>, <<8, 0>> >>,
                    << <<8, 30>>, <<17, 15>> >> }

OverlapCalls ==
  { [ eventStart |-> s, eventEnd |-> e, workStartTime |-> w[1], workEndTime |-> w[2],
      timezone |-> z ] :
    s \in OverlapInstants, e \in OverlapInstants, w \in OverlapWindows,
    z \in {"UTC", "Pacific/Auckland", "America/Los_Angeles"} }

InitOverlap ==
  /\ hourCycle \in {"h23", "h24"}
  /\ runtimeZone = "UTC"
  /\ timeConfig \in { c \in TimeConfigs("UTC") :
                         /\ c.startDate = 0
                         /\ c.timeBufferFactor = Tenths
                         /\ c.weekdayStartTime = <<9, 0>> /\ c.weekdayEndTime = <<17, 0>>
                         /\ c.weekendEndTime = <<18, 0>> }
  /\ allCalendars = Calendars
  /\ calendarCategories = ("cal1" :> Inactive) @@ ("cal2" :> Inactive)
  /\ calendarEvents = EventsOfCalendar({})
  /\ isSignedIn = TRUE
  /\ isLoading = FALSE
  /\ error = Null
  /\ processedData = None
  /\ pc = "idle"
  /\ timeMin = 0
  /\ timeMax = 0
  /\ datesInRange = <<>>
  /\ dailyAvailabilityMap = EmptyMap
  /\ relevantEvents = <<>>
  /\ calIndex = 1
  /\ eventIndex = 1
  /\ projectTaskMap = <<>>
  /\ fungibleTimeMap = <<>>
  /\ dailyDetailsMap = EmptyMap
  /\ projectColorMap = EmptyMap
  /\ nextColorIndex = 0
  /\ publishedReports = <<>>
  /\ \E call \in OverlapCalls :
       /\ call.eventStart <= call.eventEnd
       /\ overlapArgs = Some(call)
  /\ overlapResult = None
  /\ colorNames = <<>>
  /\ colorCall = None
  /\ AroundAtRest

CallOverlap ==
  /\ overlapArgs # None
  /\ overlapResult = None
  /\ LET call == overlapArgs[1]
     IN  overlapResult' = Some(calculateWorkHoursOverlap(
                                 call.eventStart, call.eventEnd, call.workStartTime,
                                 call.workEndTime, call.timezone, hourCycle))
  /\ UNCHANGED <<aroundVars, envVars, inputVars, appVars, runVars, publishedReports, overlapArgs,
                 colorNames, colorCall>>

NextOverlap == CallOverlap

SpecOverlap == InitOverlap /\ [][NextOverlap]_vars

----------------------------------------------------------------------------
(* getProjectColor on its own: the calls of one run, one name after the    *)
(* other.  The names come from a pool; a name not asked before is the next *)
(* of the pool (which names are asked first does not matter to the color   *)
(* allocation, only how many), a name asked before may be asked again.     *)

\* the number of names of the pool: more than the palette has colors
MaxNames == 14

\* the pool: one-letter names, and the name "constructor" in second place
ConstructorName == <<"c","o","n","s","t","r","u","c","t","o","r">>

ColorNamePool ==
  [ i \in 1..MaxNames |-> IF i = 2 THEN ConstructorName ELSE <<LowerChars[i]>> ]

InitColor ==
  /\ hourCycle = "h23"
  /\ runtimeZone = "UTC"
  /\ timeConfig \in { c \in TimeConfigs("UTC") :
                         /\ c.startDate = 0
                         /\ c.timeBufferFactor = Tenths
                         /\ c.weekdayStartTime = <<9, 0>> /\ c.weekdayEndTime = <<17, 0>>
                         /\ c.weekendEndTime = <<18, 0>> }
  /\ allCalendars = Calendars
  /\ calendarCategories = ("cal1" :> Inactive) @@ ("cal2" :> Inactive)
  /\ calendarEvents = EventsOfCalendar({})
  /\ isSignedIn = TRUE
  /\ isLoading = TRUE
  /\ error = Null
  /\ processedData = None
  /\ pc = "process"
  /\ timeMin = 0
  /\ timeMax = 0
  /\ datesInRange = <<>>
  /\ dailyAvailabilityMap = EmptyMap
  /\ relevantEvents = <<>>
  /\ calIndex = 1
  /\ eventIndex = 1
  /\ projectTaskMap = FreshProjectTaskMap
  /\ fungibleTimeMap = FreshFungibleTimeMap
  /\ dailyDetailsMap = FreshDailyDetailsMap
  /\ projectColorMap = FreshProjectColorMap
  /\ nextColorIndex = FreshColorIndex
  /\ publishedReports = <<>>
  /\ overlapArgs = None
  /\ overlapResult = None
  /\ colorNames = <<>>
  /\ colorCall = None
  /\ AroundAtRest

\* the names a call may ask: those asked before and the next of the pool
AskableNames ==
  { colorNames[i] : i \in 1..Len(colorNames) }
    \cup (IF Len(colorNames) < MaxNames THEN { ColorNamePool[Len(colorNames) + 1] } ELSE {})

CallColor ==
  /\ \E name \in AskableNames :
       LET picked == getProjectColor(projectColorMap, nextColorIndex, name)
       IN  /\ projectColorMap' = picked.colorMap
           /\ nextColorIndex' = picked.colorIndex
           /\ colorNames' = IF IndexIn(name, colorNames) > 0 THEN colorNames
                             ELSE Append(colorNames, name)
           /\ colorCall' = Some([ name |-> name, color |-> picked.color ])
  /\ UNCHANGED <<aroundVars, envVars, inputVars, appVars, publishedReports, overlapArgs, overlapResult,
                 pc, timeMin, timeMax, datesInRange, dailyAvailabilityMap, relevantEvents,
                 calIndex, eventIndex, projectTaskMap, fungibleTimeMap, dailyDetailsMap>>

NextColor == CallColor

SpecColor == InitColor /\ [][NextColor]_vars

\* the same call on a runtime whose formatter prints midnight as hour 00
InitOverlapH23 == InitOverlap /\ hourCycle = "h23"

SpecOverlapH23 == InitOverlapH23 /\ [][NextOverlap]_vars

----------------------------------------------------------------------------
(* Properties.  Quantities are in tenths of a minute (1/600 hour).         *)

\* the run has applied every event (and may have published its report)
AllEventsProcessed ==
  \/ pc = "process" /\ eventIndex > Len(relevantEvents)
  \/ pc = "idle" /\ processedData # None

Published == pc = "idle" /\ processedData # None

DayKeys == DOMAIN dailyAvailabilityMap

\* the row of the published report for the i-th date, and that date's entry
ReportRow(i) == processedData[1].dailyAvailability[i]
EntryOfRow(i) == dailyAvailabilityMap[formatDateToYMD(datesInRange[i], timeConfig.timezone)]

\* C1: in a published report, every day has 0 <= availableHours <= totalHours
C1_AvailableWithinTotal ==
  Published =>
    \A i \in 1..Len(processedData[1].dailyAvailability) :
      /\ 0 <= ReportRow(i).availableHours
      /\ ReportRow(i).availableHours <= ReportRow(i).totalHours

\* C1 witness: a published report with a day whose deductions exceed its
\* buffered capacity (reported as 0 hours available) and a day with hours left
C1_Witness ==
  /\ Published
  /\ timeConfig.timeBufferFactor < Tenths
  /\ \E i \in 1..Len(datesInRange) :
       /\ EntryOfRow(i).availableMinutes < 0
       /\ ReportRow(i).availableHours = 0
       /\ EntryOfRow(i).fungibleMinutes > 0
  /\ \E i \in 1..Len(datesInRange) :
       /\ ReportRow(i).availableHours > 0
       /\ ReportRow(i).availableHours < ReportRow(i).totalHours

\* C2 (as claimed): once all events are processed, every day's entry has
\* availableMinutes = totalMinutes - fungibleMinutes - taskMinutes clamped at
\* 0, with totalMinutes its own field, and fungibleMinutes + taskMinutes >= 0
C2_Claim ==
  AllEventsProcessed =>
    \A d \in DayKeys :
      LET e == dailyAvailabilityMap[d]
      IN  /\ e.fungibleMinutes + e.taskMinutes >= 0
          /\ e.availableMinutes = Max(0, e.totalMinutes - e.fungibleMinutes - e.taskMinutes)

\* C3 (as claimed): while events are applied, each day's availableMinutes
\* starts at the day's totalMinutes, is never below 0 and never increases
C3_StartsAtTotalNeverNegative ==
  pc = "process" =>
    \A d \in DayKeys :
      /\ eventIndex = 1 =>
           dailyAvailabilityMap[d].availableMinutes = dailyAvailabilityMap[d].totalMinutes
      /\ dailyAvailabilityMap[d].availableMinutes >= 0

C3_NeverIncreases ==
  (pc = "process" /\ pc' = "process") =>
    \A d \in DayKeys :
      dailyAvailabilityMap'[d].availableMinutes <= dailyAvailabilityMap[d].availableMinutes

C3_Claim == [] C3_StartsAtTotalNeverNegative /\ [][C3_NeverIncreases]_vars

\* C4: the reports of two runs on the same inputs are identical, colors
\* included (the inputs never change in this specification)
C4_SameReportTwice ==
  Len(publishedReports) = 2 => publishedReports[1] = publishedReports[2]

\* C4 witness: two runs have published, each report with two colored names
C4_Witness ==
  /\ Len(publishedReports) = 2
  /\ Published
  /\ Len(publishedReports[2].projectTasks) + Len(publishedReports[2].fungibleTimeSummary) >= 2
  /\ nextColorIndex >= 2

\* the capacity of a window under the buffer factor, in tenths of a minute
BufferedMinutes(window, config) ==
  (parseTimeToMinutes(window.endTime) - parseTimeToMinutes(window.startTime))
    * config.timeBufferFactor

\* C7 (as claimed): a day's totalMinutes is its window times the buffer
\* factor, and a day without events reports availableHours = totalMinutes / 60
C7_Claim ==
  /\ pc \in {"fetch", "process"} =>
       \A d \in DayKeys :
         dailyAvailabilityMap[d].totalMinutes \in
           { BufferedMinutes(WindowOf(timeConfig, TRUE), timeConfig),
             BufferedMinutes(WindowOf(timeConfig, FALSE), timeConfig) }
  /\ Published =>
       \A i \in 1..Len(processedData[1].dailyAvailability) :
         (EntryOfRow(i).fungibleMinutes = 0 /\ EntryOfRow(i).taskMinutes = 0)
           => ReportRow(i).availableHours = EntryOfRow(i).totalMinutes

\* C8 (as claimed): on a day with fungible deductions only, the reported
\* totalHours equals the reported availableHours
C8_Claim ==
  Published =>
    \A i \in 1..Len(processedData[1].dailyAvailability) :
      (EntryOfRow(i).fungibleMinutes > 0 /\ EntryOfRow(i).taskMinutes = 0)
        => ReportRow(i).totalHours = ReportRow(i).availableHours

----------------------------------------------------------------------------
(* Properties of calculateWorkHoursOverlap.  The event and the window are  *)
(* placed on the time line of the configured zone: minutes of local time   *)
(* from day 0 on.                                                          *)

Call == overlapArgs[1]
CallResult == overlapResult[1]

LocalStart == Call.eventStart + ZoneOffset(Call.timezone)
LocalEnd   == Call.eventEnd + ZoneOffset(Call.timezone)
StartDay   == LocalStart \div MinutesPerDay

\* the work window of the day the event starts on
WindowStart == StartDay * MinutesPerDay + parseTimeToMinutes(Call.workStartTime)
WindowEnd   == StartDay * MinutesPerDay + parseTimeToMinutes(Call.workEndTime)

FullyOutsideWindow  == LocalEnd <= WindowStart \/ LocalStart >= WindowEnd
FullyContainsWindow == LocalStart <= WindowStart /\ LocalEnd >= WindowEnd
EndsOnStartDay      == LocalEnd \div MinutesPerDay = StartDay

\* C5 (as claimed): 0 for an event fully outside the work window, the window
\* duration for an event that fully contains the window of its start day
C5_Claim ==
  overlapResult # None =>
    /\ FullyOutsideWindow => CallResult = 0
    /\ FullyContainsWindow => CallResult = WindowEnd - WindowStart

\* C6 (as claimed): for an event that starts and ends on the same local day
\* the result is max(0, min(end, windowEnd) - max(start, windowStart)); the
\* result is never negative, and 0 when event and window are disjoint
C6_Claim ==
  overlapResult # None =>
    /\ EndsOnStartDay =>
         CallResult = Max(0, Min(LocalEnd, WindowEnd) - Max(LocalStart, WindowStart))
    /\ CallResult >= 0
    /\ FullyOutsideWindow => CallResult = 0

----------------------------------------------------------------------------
(* Properties of the classification of one event *)

\* the step of relevantEvents.forEach that handles relevantEvents[eventIndex]
EventStep == pc = "process" /\ eventIndex <= Len(relevantEvents) /\ eventIndex' = eventIndex + 1

CurrentEvent == relevantEvents[eventIndex]
HandledEvent == relevantEvents[eventIndex - 1]

HasDateTimes(e) == e.start # NoDateTime /\ e.end # NoDateTime

\* the civil date of the event's start in the configured zone
StartDate(e) == (e.start + ZoneOffset(timeConfig.timezone)) \div MinutesPerDay

\* the overlap the run computes for the event
OverlapOf(e) == EventOverlap(e, timeConfig, runtimeZone, hourCycle)

\* "block" or "new event" anywhere in the summary, in any case
HasBlockingKeyword(summary) ==
  \/ Includes(ToLowerCase(summary), <<"b","l","o","c","k">>)
  \/ Includes(ToLowerCase(summary), <<"n","e","w"," ","e","v","e","n","t">>)

\* a Task event of a day of the range that is not blocked and overlaps the window
IsTrackedTaskWithOverlap(e) ==
  /\ e.category = Task
  /\ HasDateTimes(e)
  /\ StartDate(e) \in DayKeys
  /\ ~HasBlockingKeyword(e.summary)
  /\ OverlapOf(e) > 0

HoursOfKey(entries, key) ==
  IF HasKey(entries, key) THEN entries[KeyIndex(entries, key)].hours ELSE 0

KeyOfEvent(e) == TaskKey(ProjectTaskOf(e.summary).project, ProjectTaskOf(e.summary).task)

RowsOf(details, d) == IF d \in DOMAIN details THEN details[d] ELSE <<>>

\* C9: a non-blocked Task event with overlap > 0 adds the overlap to the
\* day's taskMinutes, takes it from availableMinutes, gets a task_tracked
\* detail row, and adds its full duration to its project/task entry
C9_TaskEventEffect ==
  [][ (EventStep /\ IsTrackedTaskWithOverlap(CurrentEvent)) =>
        LET e == CurrentEvent
            d == StartDate(e)
            o == OverlapOf(e) * Tenths
        IN  /\ dailyAvailabilityMap'[d].taskMinutes = dailyAvailabilityMap[d].taskMinutes + o
            /\ dailyAvailabilityMap'[d].availableMinutes =
                 dailyAvailabilityMap[d].availableMinutes - o
            /\ dailyAvailabilityMap'[d].fungibleMinutes = dailyAvailabilityMap[d].fungibleMinutes
            /\ Len(RowsOf(dailyDetailsMap', d)) = Len(RowsOf(dailyDetailsMap, d)) + 1
            /\ dailyDetailsMap'[d][Len(dailyDetailsMap'[d])].impactType = "task_tracked"
            /\ HoursOfKey(projectTaskMap', KeyOfEvent(e)) =
                 HoursOfKey(projectTaskMap, KeyOfEvent(e)) + (e.end - e.start) * Tenths
    ]_vars

\* C9 witness: such an event, longer than its overlap, has just been handled
C9_Witness ==
  /\ pc = "process"
  /\ eventIndex > 1
  /\ IsTrackedTaskWithOverlap(HandledEvent)
  /\ HandledEvent.end - HandledEvent.start > OverlapOf(HandledEvent)
  /\ dailyAvailabilityMap[StartDate(HandledEvent)].taskMinutes >= OverlapOf(HandledEvent) * Tenths
  /\ HoursOfKey(projectTaskMap, KeyOfEvent(HandledEvent)) >=
       (HandledEvent.end - HandledEvent.start) * Tenths

\* C10: a Task event whose summary holds a blocking keyword changes no
\* capacity, no project/task entry, no fungible entry, no color and no detail
C10_BlockedTaskIgnored ==
  [][ (EventStep /\ CurrentEvent.category = Task
         /\ HasBlockingKeyword(CurrentEvent.summary)) =>
        UNCHANGED <<dailyAvailabilityMap, projectTaskMap, fungibleTimeMap,
                    dailyDetailsMap, projectColorMap, nextColorIndex>>
    ]_vars

\* C10 witness: the first event of the run was a blocked Task event within
\* the work window of a day of the range, written with capitals
C10_Witness ==
  /\ pc = "process"
  /\ eventIndex = 2
  /\ HandledEvent.category = Task
  /\ HasBlockingKeyword(HandledEvent.summary)
  /\ HandledEvent.summary # ToLowerCase(HandledEvent.summary)
  /\ HasDateTimes(HandledEvent)
  /\ StartDate(HandledEvent) \in DayKeys
  /\ OverlapOf(HandledEvent) > 0
  /\ projectTaskMap = <<>>
  /\ nextColorIndex = 0

----------------------------------------------------------------------------
(* Properties of the date skeleton and of the validation *)

\* the daily capacity map of the run has been built
SkeletonBuilt == pc \in {"fetch", "process"}

\* the weekday of a civil date in the ordinary calendar: 0 is Sunday
CivilWeekday(d) == (d + EpochWeekday) % 7

CivilWeekend(d) == CivilWeekday(d) = 0 \/ CivilWeekday(d) = 6

\* the length of the weekend or the weekday window, in tenths of a minute
WindowMinutes(isWeekendDay) ==
  LET window == WindowOf(timeConfig, isWeekendDay)
  IN  (parseTimeToMinutes(window.endTime) - parseTimeToMinutes(window.startTime)) * Tenths

\* C11 (as claimed): the capacity of every keyed civil date comes from the
\* weekend window exactly when that date is a Saturday or Sunday
C11_Claim ==
  SkeletonBuilt =>
    \A d \in DayKeys :
      dailyAvailabilityMap[d].totalMinutes = WindowMinutes(CivilWeekend(d))

InvalidRange == timeConfig.endDate < timeConfig.startDate

\* C12 (as claimed): with endDate before startDate the run is rejected with
\* an error before anything is fetched and no report is ever published
C12_Claim ==
  InvalidRange =>
    /\ pc = "idle"
    /\ processedData = None

InvalidWindow ==
  \/ parseTimeToMinutes(timeConfig.weekdayEndTime) <= parseTimeToMinutes(timeConfig.weekdayStartTime)
  \/ parseTimeToMinutes(timeConfig.weekendEndTime) <= parseTimeToMinutes(timeConfig.weekendStartTime)

ValidationErrors ==
  { "Weekday end time must be after start time.",
    "Weekend end time must be after start time." }

\* C13: with a weekday or weekend window of end <= start, a run aborts
\* before fetching: it sets a validation error, leaves processedData null
\* and isLoading false, and never reaches the fetch loop
C13_InvalidWindowAborts ==
  [][ (InvalidWindow /\ isSignedIn) =>
        /\ error' \in ValidationErrors
        /\ processedData' = None
        /\ isLoading' = FALSE
        /\ pc' = "idle"
        /\ relevantEvents' = <<>> ]_vars

\* C13 witness: a run on a valid weekday window and a weekend window of end =
\* start has been refused, with events waiting on an active calendar
C13_Witness ==
  /\ error = "Weekend end time must be after start time."
  /\ timeConfig.weekendEndTime = timeConfig.weekendStartTime
  /\ pc = "idle" /\ processedData = None /\ ~isLoading
  /\ \E c \in DOMAIN calendarEvents :
       IsActive(CategoryOf(c)) /\ calendarEvents[c] # {}

\* C14 (as claimed): for startDate <= endDate the keys of the daily map and
\* the rows of the report are the civil dates startDate .. endDate, in order
C14_Claim ==
  (~InvalidRange) =>
    /\ SkeletonBuilt =>
         /\ DayKeys = timeConfig.startDate .. timeConfig.endDate
         /\ Len(datesInRange) = timeConfig.endDate - timeConfig.startDate + 1
    /\ Published =>
         /\ Len(processedData[1].dailyAvailability) = timeConfig.endDate - timeConfig.startDate + 1
         /\ \A i \in 1..Len(processedData[1].dailyAvailability) :
              ReportRow(i).date.day = timeConfig.startDate + i - 1

----------------------------------------------------------------------------
(* Properties of the project/task entries *)

\* a Task event of a day of the range that is not blocked: the run tracks it
IsTrackedTask(e) ==
  /\ e.category = Task
  /\ HasDateTimes(e)
  /\ StartDate(e) \in DayKeys
  /\ ~HasBlockingKeyword(e.summary)

HasColon(summary) == \E i \in 1..Len(summary) : summary[i] = ":"

FirstColon(summary) ==
  CHOOSE i \in 1..Len(summary) :
    summary[i] = ":" /\ \A j \in 1..(i - 1) : summary[j] # ":"

\* the project and the task a summary names: the text before the first colon
\* and the whole text behind it, trimmed; the summary itself without a colon
NamedProject(summary) ==
  IF HasColon(summary) THEN Trim(SubSeq(summary, 1, FirstColon(summary) - 1)) ELSE summary

NamedTask(summary) ==
  IF HasColon(summary)
  THEN Trim(SubSeq(summary, FirstColon(summary) + 1, Len(summary)))
  ELSE summary

\* C15 (as claimed): the entry a tracked Task event creates carries the
\* trimmed text before the first colon as project and the trimmed whole
\* remainder as task; without a colon both are the summary
C15_Claim ==
  [][ (EventStep /\ IsTrackedTask(CurrentEvent)
         /\ Len(projectTaskMap') = Len(projectTaskMap) + 1) =>
        LET entry == projectTaskMap'[Len(projectTaskMap')]
        IN  /\ entry.project = NamedProject(CurrentEvent.summary)
            /\ entry.task = NamedTask(CurrentEvent.summary)
    ]_vars

\* the grouping key of a summary: its trimmed, lower-cased (project, task) pair
NamedKey(summary) ==
  << ToLowerCase(Trim(NamedProject(summary))), ToLowerCase(Trim(NamedTask(summary))) >>

\* the events the run has handled so far, by index
HandledIndices ==
  IF pc = "process" THEN 1..(eventIndex - 1) ELSE {}

TrackedHandled == { i \in HandledIndices : IsTrackedTask(relevantEvents[i]) }

\* the tracked events that are the first of their key, in order
FirstOfKey(i) ==
  /\ i \in TrackedHandled
  /\ \A j \in TrackedHandled :
       j < i => NamedKey(relevantEvents[j].summary) # NamedKey(relevantEvents[i].summary)

RECURSIVE FirstsUpTo(_)
FirstsUpTo(n) ==
  IF n = 0 THEN <<>>
  ELSE IF FirstOfKey(n) THEN Append(FirstsUpTo(n - 1), n) ELSE FirstsUpTo(n - 1)

\* the summed full durations of the handled tracked events of a key, in 1/600 hour
RECURSIVE HoursOfNamedKey(_, _)
HoursOfNamedKey(key, n) ==
  IF n = 0 THEN 0
  ELSE HoursOfNamedKey(key, n - 1) +
       ( IF n \in TrackedHandled /\ NamedKey(relevantEvents[n].summary) = key
         THEN (relevantEvents[n].end - relevantEvents[n].start) * Tenths
         ELSE 0 )

\* C16 (as claimed): the project/task entries are the distinct keys of the
\* tracked events in order of first encounter; each entry carries the labels
\* and the color of the first event of its key and the summed full durations
\* of all events of its key
C16_Claim ==
  pc = "process" =>
    LET firsts == FirstsUpTo(eventIndex - 1)
    IN  /\ Len(projectTaskMap) = Len(firsts)
        /\ \A k \in 1..Min(Len(firsts), Len(projectTaskMap)) :
             LET first == relevantEvents[firsts[k]]
                 entry == projectTaskMap[k]
             IN  /\ entry.project = NamedProject(first.summary)
                 /\ entry.task = NamedTask(first.summary)
                 /\ NamedProject(first.summary) \in DOMAIN projectColorMap
                 /\ entry.color = projectColorMap[NamedProject(first.summary)]
                 /\ entry.hours = HoursOfNamedKey(NamedKey(first.summary), eventIndex - 1)

----------------------------------------------------------------------------
(* Properties of getProjectColor *)

\* C17 (as claimed): a call returns, for the k-th distinct name asked, the
\* palette color at index (k - 1) mod N, on its first call and on every
\* later call for that name
C17_Claim ==
  colorCall # None =>
    LET k == IndexIn(colorCall[1].name, colorNames)
    IN  colorCall[1].color = PROJECT_COLORS[((k - 1) % Len(PROJECT_COLORS)) + 1]

----------------------------------------------------------------------------
(* Properties of the fetch *)

\* the instant of local midnight at the start of a civil date in the
\* configured zone
LocalMidnight(d) == d * MinutesPerDay - ZoneOffset(timeConfig.timezone)

\* C18 (as claimed): the fetched range reaches from local midnight at the
\* start of startDate to local midnight at the end of endDate in the
\* configured zone
C18_Claim ==
  (SkeletonBuilt /\ ~InvalidRange) =>
    /\ timeMin <= LocalMidnight(timeConfig.startDate)
    /\ timeMax >= LocalMidnight(timeConfig.endDate + 1)

\* C19: an event without start or end dateTime changes no capacity, no
\* aggregate, no color and no detail row and raises no error; the loop goes
\* on to the next event
C19_EventWithoutDateTimeSkipped ==
  [][ (EventStep /\ ~HasDateTimes(CurrentEvent)) =>
        /\ UNCHANGED <<dailyAvailabilityMap, projectTaskMap, fungibleTimeMap,
                       dailyDetailsMap, projectColorMap, nextColorIndex>>
        /\ error' = error
        /\ pc' = "process"
    ]_vars

\* C19 witness: the run has skipped an event that has a start but no end
\* dateTime and then deducted the event behind it from a day
C19_Witness ==
  /\ pc = "process"
  /\ eventIndex = 3
  /\ relevantEvents[1].start # NoDateTime
  /\ relevantEvents[1].end = NoDateTime
  /\ StartDate(relevantEvents[1]) \in DayKeys
  /\ HasDateTimes(relevantEvents[2])
  /\ \E d \in DayKeys :
       dailyAvailabilityMap[d].fungibleMinutes + dailyAvailabilityMap[d].taskMinutes > 0
  /\ error = Null

FungibleOrTask(category) == category \in {"fungible", "task"}

\* the events of the run come from Fungible and Task calendars only, and so
\* do the aggregates and the detail rows
EventsOfActiveCalendarsOnly ==
  /\ \A i \in 1..Len(relevantEvents) :
       /\ FungibleOrTask(relevantEvents[i].category)
       /\ calendarCategories[relevantEvents[i].calendarId] = relevantEvents[i].category
  /\ \A i \in 1..Len(fungibleTimeMap) :
       calendarCategories[fungibleTimeMap[i].key] = "fungible"
  /\ (\A c \in DOMAIN calendarCategories : calendarCategories[c] # "task")
       => projectTaskMap = <<>>
  /\ \A d \in DOMAIN dailyDetailsMap :
       \A i \in 1..Len(dailyDetailsMap[d]) :
         /\ FungibleOrTask(dailyDetailsMap[d][i].category)
         /\ \E k \in 1..Len(allCalendars) :
              /\ allCalendars[k].summary = dailyDetailsMap[d][i].calendarName
              /\ FungibleOrTask(calendarCategories[allCalendars[k].id])
  /\ (\A c \in DOMAIN calendarCategories : ~FungibleOrTask(calendarCategories[c]))
       => \A d \in DayKeys :
            /\ dailyAvailabilityMap[d].fungibleMinutes = 0
            /\ dailyAvailabilityMap[d].taskMinutes = 0

\* a step of the fetch loop passes a Fungible or Task calendar to listEvents
FetchesActiveCalendar ==
  (pc = "fetch" /\ calIndex' # calIndex /\ pc' = "fetch") =>
    FungibleOrTask(calendarCategories[allCalendars[calIndex' - 1].id])

\* C20: only calendars categorised Fungible or Task are passed to
\* listEvents, and only their events reach the aggregates of the run
C20_OnlyActiveCalendars ==
  [] EventsOfActiveCalendarsOnly /\ [][FetchesActiveCalendar]_vars

\* C20 witness: a report is published from the events of a Task calendar
\* while an Inactive calendar holds an event inside the work window
C20_Witness ==
  /\ Published
  /\ calendarCategories["cal2"] = "inactive"
  /\ \E e \in calendarEvents["cal2"] :
       /\ e.start = At(0, 10, 0) /\ e.end = At(0, 11, 0)
       /\ ~HasBlockingKeyword(e.summary)
  /\ timeConfig.startDate = 0
  /\ Len(processedData[1].projectTasks) = 1
  /\ processedData[1].projectTasks[1].project = <<"G","y","m">>

----------------------------------------------------------------------------
(* Properties of events outside the work hours and of the day an event     *)
(* counts for                                                              *)

RunMaps == <<dailyAvailabilityMap, projectTaskMap, fungibleTimeMap,
             dailyDetailsMap, projectColorMap, nextColorIndex>>

\* a Fungible event of a day of the range that does not overlap the work hours
IsFungibleWithoutOverlap(e) ==
  /\ e.category = "fungible"
  /\ HasDateTimes(e)
  /\ StartDate(e) \in DayKeys
  /\ OverlapOf(e) = 0

\* C21 (as claimed): a Fungible event with overlap 0 changes no capacity,
\* creates no fungible entry, allocates no color and adds no detail row
C21_Claim ==
  [][ (EventStep /\ IsFungibleWithoutOverlap(CurrentEvent)) => UNCHANGED RunMaps ]_vars

\* C22: a Task event without blocking keyword and with overlap 0 adds its
\* full duration to its project/task entry and gets a task_tracked detail
\* row, and no day's availableMinutes, taskMinutes or fungibleMinutes changes
C22_TaskOutsideWorkHours ==
  [][ (EventStep /\ IsTrackedTask(CurrentEvent) /\ OverlapOf(CurrentEvent) = 0) =>
        LET e == CurrentEvent
            d == StartDate(e)
            rows == RowsOf(dailyDetailsMap', d)
        IN  /\ dailyAvailabilityMap' = dailyAvailabilityMap
            /\ HoursOfKey(projectTaskMap', KeyOfEvent(e)) =
                 HoursOfKey(projectTaskMap, KeyOfEvent(e)) + (e.end - e.start) * Tenths
            /\ Len(rows) = Len(RowsOf(dailyDetailsMap, d)) + 1
            /\ rows[Len(rows)].impactType = "task_tracked"
            /\ rows[Len(rows)].summary = e.summary
    ]_vars

\* C22 witness: the first event of the run was a Task event before the work
\* hours of its day; it has its entry and its detail row
C22_Witness ==
  /\ pc = "process"
  /\ eventIndex = 2
  /\ IsTrackedTask(HandledEvent)
  /\ OverlapOf(HandledEvent) = 0
  /\ HandledEvent.end - HandledEvent.start > 0
  /\ Len(projectTaskMap) = 1
  /\ projectTaskMap[1].hours = (HandledEvent.end - HandledEvent.start) * Tenths
  /\ Len(RowsOf(dailyDetailsMap, StartDate(HandledEvent))) = 1
  /\ dailyAvailabilityMap[StartDate(HandledEvent)].taskMinutes = 0

\* the civil dates of the configured range
DatesOfRange == timeConfig.startDate .. timeConfig.endDate

\* C23 (as claimed): an event changes the capacity and the detail rows of no
\* day but the civil date of its start in the configured zone, and an event
\* whose start date is not a date of the range changes nothing
C23_Claim ==
  [][ (EventStep /\ HasDateTimes(CurrentEvent)) =>
        /\ \A d \in DayKeys :
             d # StartDate(CurrentEvent) =>
               /\ dailyAvailabilityMap'[d] = dailyAvailabilityMap[d]
               /\ RowsOf(dailyDetailsMap', d) = RowsOf(dailyDetailsMap, d)
        /\ DOMAIN dailyDetailsMap' \subseteq DOMAIN dailyDetailsMap \cup {StartDate(CurrentEvent)}
        /\ StartDate(CurrentEvent) \notin DatesOfRange => UNCHANGED RunMaps
    ]_vars

\* the date of the skeleton a key of the daily map was last written for, and
\* the window its capacity was computed from
DateOfKey(d) ==
  datesInRange[CHOOSE i \in 1..Len(datesInRange) :
                 /\ formatDateToYMD(datesInRange[i], timeConfig.timezone) = d
                 /\ \A j \in (i + 1)..Len(datesInRange) :
                      formatDateToYMD(datesInRange[j], timeConfig.timezone) # d]

CapacityWindow(d) == WindowOf(timeConfig, isWeekend(DateOfKey(d), runtimeZone))

\* the window the overlap of an event is computed with
OverlapWindow(e) == WindowOf(timeConfig, isWeekend(e.start, runtimeZone))

\* C28 (as claimed): the overlap of every event of a day of the skeleton is
\* computed with the window the capacity of that day was computed from
C28_Claim ==
  pc = "process" =>
    \A i \in 1..Len(relevantEvents) :
      LET e == relevantEvents[i]
      IN  (HasDateTimes(e) /\ StartDate(e) \in DayKeys)
            => OverlapWindow(e) = CapacityWindow(StartDate(e))

\* C30 (as claimed): the minutes deducted from a day never exceed the length
\* of the day's work window
C30_Claim ==
  pc = "process" =>
    \A d \in DayKeys :
      LET window == CapacityWindow(d)
      IN  dailyAvailabilityMap[d].fungibleMinutes + dailyAvailabilityMap[d].taskMinutes
            <= (parseTimeToMinutes(window.endTime) - parseTimeToMinutes(window.startTime)) * Tenths


----------------------------------------------------------------------------
(* googleCalendarService: the module state, the token kept in localStorage *)
(* and the calls the app and Google Identity Services make.  The expiry is *)
(* kept as the number it is written from and parsed back to; a clock tick  *)
(* is as long as the shortest token lifetime.                              *)

\* the latest instant of the clock
MaxClock == 2

\* localStorage.getItem of an item that is not there
NoExpiry == -1

AccessTokens == {"token1", "token2"}
ExpiresIn    == 1..2

\* the empty Record<string, CalendarCategory>
NoCategories == <<>>

\* App's updateAuthStatus, the callback handed to initGoogleClient
updateAuthStatus(signedIn) ==
  /\ isSignedIn' = signedIn
  /\ IF signedIn
     THEN /\ error' = Null
          /\ UNCHANGED <<allCalendars, calendarCategories, processedData>>
     ELSE /\ allCalendars' = <<>>
          /\ calendarCategories' = NoCategories
          /\ processedData' = None
          /\ UNCHANGED error

storeToken(token, expiresIn) ==
  /\ storedToken' = token
  /\ storedExpiry' = now + expiresIn
  /\ accessToken' = token

\* the test of getStoredToken
StoredTokenValid ==
  storedToken # Null /\ storedExpiry # NoExpiry /\ now < storedExpiry

clearStoredToken ==
  /\ storedToken' = Null
  /\ storedExpiry' = NoExpiry
  /\ accessToken' = Null

handleAuthError ==
  /\ serviceSignedIn' = FALSE
  /\ accessToken' = Null
  /\ IF authStatusCallback THEN updateAuthStatus(FALSE)
     ELSE UNCHANGED <<isSignedIn, error, allCalendars, calendarCategories, processedData>>

\* the guard of listCalendars and listEvents lets the call through
ServiceReady == gapiInstance /\ serviceSignedIn /\ accessToken # Null

restOfApp == <<envVars, timeConfig, calendarEvents, isLoading, runVars, publishedReports,
               callVars, savedTimeConfig, shellVars>>

\* the service before initGoogleClient, in a browser that may hold a token
\* of an earlier visit
InitService ==
  /\ hourCycle = "h23"
  /\ runtimeZone = "UTC"
  /\ timeConfig \in { c \in TimeConfigs("UTC") :
                         /\ c.startDate = 0
                         /\ c.timeBufferFactor = Tenths
                         /\ c.weekdayStartTime = <<9, 0>> /\ c.weekdayEndTime = <<17, 0>>
                         /\ c.weekendEndTime = <<18, 0>> }
  /\ allCalendars = <<>>
  /\ calendarCategories = NoCategories
  /\ calendarEvents = EventsOfCalendar({})
  /\ isSignedIn = FALSE
  /\ isLoading = FALSE
  /\ error = Null
  /\ processedData = None
  /\ pc = "idle"
  /\ timeMin = 0
  /\ timeMax = 0
  /\ datesInRange = <<>>
  /\ dailyAvailabilityMap = EmptyMap
  /\ relevantEvents = <<>>
  /\ calIndex = 1
  /\ eventIndex = 1
  /\ projectTaskMap = <<>>
  /\ fungibleTimeMap = <<>>
  /\ dailyDetailsMap = EmptyMap
  /\ projectColorMap = EmptyMap
  /\ nextColorIndex = 0
  /\ publishedReports = <<>>
  /\ overlapArgs = None
  /\ overlapResult = None
  /\ colorNames = <<>>
  /\ colorCall = None
  /\ gapiInstance = FALSE
  /\ tokenClient = FALSE
  /\ accessToken = Null
  /\ serviceSignedIn = FALSE
  /\ authStatusCallback = FALSE
  /\ \/ storedToken = Null /\ storedExpiry = NoExpiry
     \/ storedToken = "token1" /\ storedExpiry \in 0..1
  /\ now = 0
  /\ tokenRequested = FALSE
  /\ serviceCall = None
  /\ savedTimeConfig = None
  /\ rendered = None
  /\ timer = None
  /\ runs = <<>>
  /\ lastFailure = None

\* initGoogleClient up to resolve(): the libraries load, the token client is
\* created, the stored token is looked up
InitGoogleClient ==
  /\ authStatusCallback' = TRUE
  /\ gapiInstance' = TRUE
  /\ tokenClient' = TRUE
  /\ IF StoredTokenValid
     THEN /\ accessToken' = storedToken
          /\ serviceSignedIn' = TRUE
          /\ updateAuthStatus(TRUE)
          /\ UNCHANGED <<storedToken, storedExpiry>>
     ELSE /\ clearStoredToken
          /\ updateAuthStatus(FALSE)
          /\ UNCHANGED serviceSignedIn
  /\ UNCHANGED <<restOfApp, now, tokenRequested, serviceCall>>

\* signIn: throws without a token client (App shows the failure), else asks
\* Google Identity Services for a token
SignIn ==
  /\ IF ~tokenClient
     THEN /\ error' = "Sign-in failed"
          /\ UNCHANGED tokenRequested
     ELSE /\ tokenRequested' = TRUE
          /\ UNCHANGED error
  /\ UNCHANGED <<restOfApp, isSignedIn, allCalendars, calendarCategories, processedData,
                 gapiInstance, tokenClient, accessToken, serviceSignedIn,
                 authStatusCallback, storedToken, storedExpiry, now, serviceCall>>

\* the callback of the token client: a token arrives
TokenResponse ==
  /\ tokenRequested
  /\ tokenRequested' = FALSE
  /\ \E token \in AccessTokens, expiresIn \in ExpiresIn : storeToken(token, expiresIn)
  /\ serviceSignedIn' = TRUE
  /\ IF authStatusCallback THEN updateAuthStatus(TRUE)
     ELSE UNCHANGED <<isSignedIn, error, allCalendars, calendarCategories, processedData>>
  /\ UNCHANGED <<restOfApp, gapiInstance, tokenClient, authStatusCallback, now, serviceCall>>

\* the callback of the token client with response.error, or its
\* error_callback
TokenError ==
  /\ tokenRequested
  /\ tokenRequested' = FALSE
  /\ handleAuthError
  /\ UNCHANGED <<restOfApp, gapiInstance, tokenClient, authStatusCallback, storedToken,
                 storedExpiry, now, serviceCall>>

signOut ==
  /\ clearStoredToken
  /\ serviceSignedIn' = FALSE
  /\ IF authStatusCallback THEN updateAuthStatus(FALSE)
     ELSE UNCHANGED <<isSignedIn, error, allCalendars, calendarCategories, processedData>>

\* signOut is called
SignOut ==
  /\ signOut
  /\ UNCHANGED <<restOfApp, gapiInstance, tokenClient, authStatusCallback, now,
                 tokenRequested, serviceCall>>

\* listCalendars or listEvents is called: it throws at its guard, or calls
\* the API, which answers or fails
ListCall(op) ==
  /\ \E apiFails \in BOOLEAN :
       serviceCall' = Some([ op        |-> op,
                             apiCalled |-> ServiceReady,
                             threw     |-> ~ServiceReady \/ apiFails ])
  /\ UNCHANGED <<restOfApp, appVars, allCalendars, calendarCategories, gapiInstance,
                 tokenClient, accessToken, serviceSignedIn, authStatusCallback,
                 storedToken, storedExpiry, now, tokenRequested>>

ListCalendars == ListCall("listCalendars")

ListEvents == ListCall("listEvents")

\* time passes
Tick ==
  /\ now < MaxClock
  /\ now' = now + 1
  /\ UNCHANGED <<restOfApp, appVars, allCalendars, calendarCategories, gapiInstance,
                 tokenClient, accessToken, serviceSignedIn, authStatusCallback,
                 storedToken, storedExpiry, tokenRequested, serviceCall>>

NextService ==
  \/ InitGoogleClient
  \/ SignIn
  \/ TokenResponse
  \/ TokenError
  \/ SignOut
  \/ ListCalendars
  \/ ListEvents
  \/ Tick

SpecService == InitService /\ [][NextService]_vars

----------------------------------------------------------------------------
(* Properties of the calendar service *)

\* C29 (1): signed in only with an access token held in memory
C29_SignedInHoldsToken == serviceSignedIn => accessToken # Null

\* C29 (2): listCalendars and listEvents throw without calling the API when
\* the user is not signed in or no token is held
C29_ListThrowsWithoutCall ==
  ((ListCalendars \/ ListEvents) /\ (~serviceSignedIn \/ accessToken = Null))
    => (serviceCall'[1].threw /\ ~serviceCall'[1].apiCalled)

\* C29 (3): signOut clears the token in memory, the stored token and the
\* stored expiry
C29_SignOutClears ==
  SignOut => (accessToken' = Null /\ storedToken' = Null /\ storedExpiry' = NoExpiry)

\* C29: in the calendar service, after any sequence of initGoogleClient,
\* token responses, signIn and signOut, isSignedIn is true only if an access
\* token is held in memory; listCalendars and listEvents throw without
\* calling the API whenever the user is not signed in or no token is held;
\* after signOut the token in memory, the stored token and the stored expiry
\* are cleared
C29_Claim ==
  /\ [] C29_SignedInHoldsToken
  /\ [][ C29_ListThrowsWithoutCall /\ C29_SignOutClears ]_vars


----------------------------------------------------------------------------
(* The time configuration and its copy in localStorage.  Dates, times and  *)
(* the time zone are strings in the program and stand as in the rest of    *)
(* the model; timeBufferFactor is a number in TimeConfig and a string in   *)
(* the value of the select, so here it carries its JavaScript type.        *)

JsNumber(tenths) == [ type |-> "number", tenths |-> tenths ]
JsString(text)   == [ type |-> "string", text |-> text ]

\* String(n) of an option value: 1, 0.9, 0.8, ...
NumberToString(tenths) ==
  IF tenths = Tenths THEN <<"1">> ELSE <<"0", ".", ToString(tenths)>>

\* the number a JSON number literal of that form denotes
ParseNumber(text) ==
  IF text = <<"1">> THEN Tenths
  ELSE CHOOSE t \in 0..(Tenths - 1) : text = <<"0", ".", ToString(t)>>

\* the value of a cleared date input
EmptyDate == -2

\* the options of the timeBufferFactor select
BufferOptions == { Tenths - k : k \in 0..5 }

DEFAULT_START_TIME         == <<9, 0>>
DEFAULT_END_TIME           == <<17, 0>>
DEFAULT_TIME_BUFFER_FACTOR == 8

\* new Date() when loadTimeConfig builds the defaults
Today == 0

ConfigFields == { "startDate", "endDate", "weekdayStartTime", "weekdayEndTime",
                  "weekendStartTime", "weekendEndTime", "timezone", "timeBufferFactor" }

\* JSON.stringify(config): per field, the text of the value and whether it
\* is written in quotes (a string) or bare (a number)
JSONStringify(config) ==
  [ f \in ConfigFields |->
      IF f = "timeBufferFactor"
      THEN IF config[f].type = "number"
           THEN [ quoted |-> FALSE, text |-> NumberToString(config[f].tenths) ]
           ELSE [ quoted |-> TRUE, text |-> config[f].text ]
      ELSE [ quoted |-> TRUE, text |-> config[f] ] ]

\* JSON.parse(saved)
JSONParse(json) ==
  [ f \in ConfigFields |->
      IF f = "timeBufferFactor"
      THEN IF json[f].quoted THEN JsString(json[f].text)
           ELSE JsNumber(ParseNumber(json[f].text))
      ELSE json[f].text ]

\* the defaults of loadTimeConfig
DefaultTimeConfig(userTimezone) ==
  [ startDate        |-> formatDateToYMD(Today, userTimezone),
    endDate          |-> formatDateToYMD(Today + 7 * MinutesPerDay, userTimezone),
    weekdayStartTime |-> DEFAULT_START_TIME,
    weekdayEndTime   |-> DEFAULT_END_TIME,
    weekendStartTime |-> <<10, 0>>,
    weekendEndTime   |-> <<18, 0>>,
    timezone         |-> userTimezone,
    timeBufferFactor |-> JsNumber(DEFAULT_TIME_BUFFER_FACTOR) ]

\* loadTimeConfig: a value that is not a number gives way to the default
BufferFactorOnLoad(value) ==
  IF value.type # "number" THEN JsNumber(DEFAULT_TIME_BUFFER_FACTOR) ELSE value

\* the validation of loadTimeConfig: every required field is truthy (a time
\* and a zone of the model are never empty)
RequiredFieldsPresent(parsed) ==
  parsed.startDate # EmptyDate /\ parsed.endDate # EmptyDate

loadTimeConfig(saved, userTimezone) ==
  IF saved # None /\ RequiredFieldsPresent(JSONParse(saved[1]))
  THEN [ JSONParse(saved[1]) EXCEPT
           !.timeBufferFactor = BufferFactorOnLoad(JSONParse(saved[1]).timeBufferFactor) ]
  ELSE DefaultTimeConfig(userTimezone)

\* what the inputs of the configuration panel can hand to
\* handleTimeConfigChange as e.target.value
InputValues(name) ==
  CASE name = "startDate"        -> {0, 1, EmptyDate}
    [] name = "endDate"          -> {1, 2}
    [] name = "timezone"         -> {"UTC", "Pacific/Auckland"}
    [] name = "weekdayStartTime" -> { <<9, 0>>, <<8, 0>> }
    [] name = "timeBufferFactor" -> { JsString(NumberToString(t)) : t \in BufferOptions }

InputNames == { "startDate", "endDate", "timezone", "weekdayStartTime", "timeBufferFactor" }

\* the app as it mounts: useState(loadTimeConfig) on an empty localStorage
InitConfig ==
  /\ hourCycle = "h23"
  /\ runtimeZone \in {"UTC", "America/Los_Angeles"}
  /\ savedTimeConfig = None
  /\ timeConfig = loadTimeConfig(savedTimeConfig, runtimeZone)
  /\ allCalendars = Calendars
  /\ calendarCategories = ("cal1" :> Inactive) @@ ("cal2" :> Inactive)
  /\ calendarEvents = EventsOfCalendar({})
  /\ isSignedIn = TRUE
  /\ isLoading = FALSE
  /\ error = Null
  /\ processedData = None
  /\ pc = "idle"
  /\ timeMin = 0
  /\ timeMax = 0
  /\ datesInRange = <<>>
  /\ dailyAvailabilityMap = EmptyMap
  /\ relevantEvents = <<>>
  /\ calIndex = 1
  /\ eventIndex = 1
  /\ projectTaskMap = <<>>
  /\ fungibleTimeMap = <<>>
  /\ dailyDetailsMap = EmptyMap
  /\ projectColorMap = EmptyMap
  /\ nextColorIndex = 0
  /\ publishedReports = <<>>
  /\ overlapArgs = None
  /\ overlapResult = None
  /\ colorNames = <<>>
  /\ colorCall = None
  /\ gapiInstance = TRUE
  /\ tokenClient = TRUE
  /\ accessToken = "token1"
  /\ serviceSignedIn = TRUE
  /\ authStatusCallback = TRUE
  /\ storedToken = "token1"
  /\ storedExpiry = 1
  /\ now = 0
  /\ tokenRequested = FALSE
  /\ serviceCall = None
  /\ rendered = None
  /\ timer = None
  /\ runs = <<>>
  /\ lastFailure = None

saveTimeConfig(config) == savedTimeConfig' = Some(JSONStringify(config))

restOfConfig == <<envVars, allCalendars, calendarCategories, calendarEvents, appVars, runVars,
                  publishedReports, callVars, serviceVars, shellVars>>

\* an input of the configuration panel changes
handleTimeConfigChange ==
  /\ \E name \in InputNames : \E value \in InputValues(name) :
       LET newConfig == [ timeConfig EXCEPT ![name] = value ]
       IN  /\ saveTimeConfig(newConfig)
           /\ timeConfig' = newConfig
  /\ UNCHANGED restOfConfig

\* the page is loaded again: useState(loadTimeConfig)
ReloadPage ==
  /\ timeConfig' = loadTimeConfig(savedTimeConfig, runtimeZone)
  /\ UNCHANGED <<restOfConfig, savedTimeConfig>>

NextConfig ==
  \/ handleTimeConfigChange
  \/ ReloadPage

SpecConfig == InitConfig /\ [][NextConfig]_vars

----------------------------------------------------------------------------
(* Properties of the saved configuration *)

\* C27: saving and reloading the time configuration is a round trip: after
\* any sequence of handleTimeConfigChange calls, loadTimeConfig on the saved
\* value returns a configuration equal field by field to the current one,
\* including the timeBufferFactor the user selected
C27_Claim ==
  savedTimeConfig # None => loadTimeConfig(savedTimeConfig, runtimeZone) = timeConfig


----------------------------------------------------------------------------
(* The app on screen, from the moment the calendars are listed until the   *)
(* user signs out.  A handler of a click or of a change of an input runs   *)
(* in a React event: the state it sets is rendered, and the effects of the *)
(* render run, before anything else happens.  A timer callback and the     *)
(* code after an await run outside a React event: the state they set is    *)
(* rendered by a later task of the browser, and until then the buttons on  *)
(* screen and the pending timer are those of the previous render.          *)
(* processedData holds, for the Report of a run, the inputs it is computed *)
(* from: the inputs the run captured and the events it fetched.            *)

\* the number of runs of processCalendarData in flight the model follows
MaxRuns == 2

\* the state a render reads
Snapshot ==
  [ isSignedIn |-> isSignedIn, isLoading |-> isLoading, error |-> error,
    processedData |-> processedData, allCalendars |-> allCalendars,
    calendarCategories |-> calendarCategories, timeConfig |-> timeConfig ]

\* processCalendarData of a render: the values its useCallback captures
ClosureOf(snap) ==
  [ isSignedIn |-> snap.isSignedIn, allCalendars |-> snap.allCalendars,
    calendarCategories |-> snap.calendarCategories, timeConfig |-> snap.timeConfig ]

\* calendarCategories[cal.id]
CategoryIn(categories, calendarId) ==
  IF calendarId \in DOMAIN categories THEN categories[calendarId] ELSE Null

\* the dependencies of the auto-run effect
EffectDeps(snap) ==
  <<snap.isSignedIn, snap.allCalendars, snap.calendarCategories, snap.isLoading,
    snap.processedData, ClosureOf(snap)>>

hasActiveCalendars(snap) ==
  \E k \in 1..Len(snap.allCalendars) :
    IsActive(CategoryIn(snap.calendarCategories, snap.allCalendars[k].id))

\* the condition under which the auto-run effect sets its timer
AutoRunWanted(snap) ==
  /\ snap.isSignedIn
  /\ Len(snap.allCalendars) > 0
  /\ ~snap.isLoading
  /\ snap.processedData = None
  /\ hasActiveCalendars(snap)

\* the auto-run effect at a commit: when a dependency changed, the cleanup
\* clears the pending timer and the effect sets a new one if it wants a run
TimerAfterCommit(before, after, pending) ==
  IF EffectDeps(after) = EffectDeps(before) THEN pending
  ELSE IF AutoRunWanted(after) THEN Some(ClosureOf(after))
  ELSE None

\* the render and the effects that follow a handler run in a React event
Commit ==
  /\ rendered' = Some(Snapshot')
  /\ timer' = TimerAfterCommit(rendered[1], Snapshot', timer)

\* a run of processCalendarData at its first await: awaiting is the index
\* of the calendar whose events are being fetched
NewRun(closure) ==
  [ closure |-> closure,
    timeMin |-> TimeMinOf(closure.timeConfig, runtimeZone),
    timeMax |-> TimeMaxOf(closure.timeConfig, runtimeZone),
    awaiting |-> 0,
    relevantEvents |-> <<>> ]

ActiveAfter(run, i) ==
  { k \in (i + 1)..Len(run.closure.allCalendars) :
      IsActive(CategoryIn(run.closure.calendarCategories, run.closure.allCalendars[k].id)) }

\* the loop over the calendars from the one after index i: it ends, or the
\* next listEvents throws at its guard, or the run awaits the API
LoopFrom(run, i) ==
  IF ActiveAfter(run, i) = {} THEN [ kind |-> "publish", run |-> run ]
  ELSE IF ~ServiceReady THEN [ kind |-> "throw", run |-> run ]
  ELSE [ kind |-> "await",
         run |-> [ run EXCEPT !.awaiting =
                     CHOOSE k \in ActiveAfter(run, i) : \A j \in ActiveAfter(run, i) : k <= j ] ]

\* what the Report of a run is computed from
ReportOfRun(run) == [ inputs |-> run.closure, events |-> run.relevantEvents ]

Without(seq, i) == SubSeq(seq, 1, i - 1) \o SubSeq(seq, i + 1, Len(seq))

\* the run goes on to its next await, to catch and finally, or to
\* setProcessedData and finally; base holds the state it goes on from
Settle(outcome, others, base, failureBefore) ==
  CASE outcome.kind = "await" ->
         /\ runs' = Append(others, outcome.run)
         /\ isLoading' = base.isLoading
         /\ error' = base.error
         /\ processedData' = base.processedData
         /\ lastFailure' = failureBefore
    [] outcome.kind = "throw" ->
         /\ runs' = others
         /\ isLoading' = FALSE
         /\ error' = "Failed to process data"
         /\ processedData' = base.processedData
         /\ lastFailure' = Some(outcome.run.closure)
    [] outcome.kind = "publish" ->
         /\ runs' = others
         /\ isLoading' = FALSE
         /\ error' = base.error
         /\ processedData' = Some(ReportOfRun(outcome.run))
         /\ lastFailure' = failureBefore

\* processCalendarData with the values of the render it was created in, up
\* to its first await or, without one, to its end
processCalendarData(closure, failureBefore) ==
  IF ~closure.isSignedIn
  THEN /\ error' = "Please sign in first."
       /\ lastFailure' = failureBefore
       /\ UNCHANGED <<isLoading, processedData, runs>>
  ELSE IF WeekdayWorkMinutes(closure.timeConfig) <= 0
  THEN /\ error' = "Weekday end time must be after start time."
       /\ isLoading' = FALSE
       /\ processedData' = None
       /\ lastFailure' = failureBefore
       /\ UNCHANGED runs
  ELSE IF WeekendWorkMinutes(closure.timeConfig) <= 0
  THEN /\ error' = "Weekend end time must be after start time."
       /\ isLoading' = FALSE
       /\ processedData' = None
       /\ lastFailure' = failureBefore
       /\ UNCHANGED runs
  ELSE Settle(LoopFrom(NewRun(closure), 0), runs,
              [ isLoading |-> TRUE, error |-> Null, processedData |-> None ],
              failureBefore)

restOfScreen == <<envVars, timeConfig, calendarEvents, runVars, publishedReports, callVars,
                  savedTimeConfig, gapiInstance, tokenClient, authStatusCallback, now,
                  tokenRequested, serviceCall>>

\* the calendars are listed and categorised, the first render with them is
\* on screen and its effects have run
InitApp ==
  /\ hourCycle = "h23"
  /\ runtimeZone = "UTC"
  /\ timeConfig \in { c \in TimeConfigs("UTC") :
                         /\ c.startDate = 0
                         /\ c.timeBufferFactor = Tenths
                         /\ c.weekdayStartTime = <<9, 0>> /\ c.weekdayEndTime = <<17, 0>>
                         /\ c.weekendEndTime = <<18, 0>> }
  /\ allCalendars = Calendars
  /\ calendarCategories \in CategoryChoices
  /\ \E es \in EventSets :
       /\ \A e \in es : e.id = 2
       /\ calendarEvents = EventsOfCalendar(es)
  /\ isSignedIn = TRUE
  /\ isLoading = FALSE
  /\ error = Null
  /\ processedData = None
  /\ pc = "idle"
  /\ timeMin = 0
  /\ timeMax = 0
  /\ datesInRange = <<>>
  /\ dailyAvailabilityMap = EmptyMap
  /\ relevantEvents = <<>>
  /\ calIndex = 1
  /\ eventIndex = 1
  /\ projectTaskMap = <<>>
  /\ fungibleTimeMap = <<>>
  /\ dailyDetailsMap = EmptyMap
  /\ projectColorMap = EmptyMap
  /\ nextColorIndex = 0
  /\ publishedReports = <<>>
  /\ overlapArgs = None
  /\ overlapResult = None
  /\ colorNames = <<>>
  /\ colorCall = None
  /\ gapiInstance = TRUE
  /\ tokenClient = TRUE
  /\ accessToken = "token1"
  /\ serviceSignedIn = TRUE
  /\ authStatusCallback = TRUE
  /\ storedToken = "token1"
  /\ storedExpiry = 1
  /\ now = 0
  /\ tokenRequested = FALSE
  /\ serviceCall = None
  /\ savedTimeConfig = None
  /\ rendered = Some(Snapshot)
  /\ timer = IF AutoRunWanted(Snapshot) THEN Some(ClosureOf(Snapshot)) ELSE None
  /\ runs = <<>>
  /\ lastFailure = None

\* the user clicks Run Analysis, which is enabled on screen
ClickRunAnalysis ==
  /\ rendered[1].isSignedIn
  /\ ~rendered[1].isLoading
  /\ Len(runs) < MaxRuns
  /\ processCalendarData(ClosureOf(rendered[1]), None)
  /\ UNCHANGED <<restOfScreen, isSignedIn, allCalendars, calendarCategories, accessToken,
                 serviceSignedIn, storedToken, storedExpiry>>
  /\ Commit

\* the auto-run timer fires
AutoRunTimerFires ==
  /\ timer # None
  /\ Len(runs) < MaxRuns
  /\ processCalendarData(timer[1], lastFailure)
  /\ timer' = None
  /\ UNCHANGED <<restOfScreen, isSignedIn, allCalendars, calendarCategories, accessToken,
                 serviceSignedIn, storedToken, storedExpiry, rendered>>

\* the listEvents a run awaits resolves: its events are pushed and the loop
\* goes on
FetchResolves ==
  /\ \E i \in 1..Len(runs) :
       LET run == runs[i]
           cal == run.closure.allCalendars[run.awaiting]
           got == [ run EXCEPT !.relevantEvents = @ \o
                      Tagged(listEvents(cal.id, run.timeMin, run.timeMax), cal.id,
                             CategoryIn(run.closure.calendarCategories, cal.id)) ]
       IN  Settle(LoopFrom(got, run.awaiting), Without(runs, i),
                  [ isLoading |-> isLoading, error |-> error,
                    processedData |-> processedData ], lastFailure)
  /\ UNCHANGED <<restOfScreen, isSignedIn, allCalendars, calendarCategories, accessToken,
                 serviceSignedIn, storedToken, storedExpiry, rendered, timer>>

\* the listEvents a run awaits throws
FetchThrows ==
  /\ \E i \in 1..Len(runs) :
       Settle([ kind |-> "throw", run |-> runs[i] ], Without(runs, i),
              [ isLoading |-> isLoading, error |-> error,
                processedData |-> processedData ], lastFailure)
  /\ UNCHANGED <<restOfScreen, isSignedIn, allCalendars, calendarCategories, accessToken,
                 serviceSignedIn, storedToken, storedExpiry, rendered, timer>>

\* React renders the state set outside an event, and the effects run
Render ==
  /\ rendered[1] # Snapshot
  /\ rendered' = Some(Snapshot)
  /\ timer' = TimerAfterCommit(rendered[1], Snapshot, timer)
  /\ UNCHANGED <<restOfScreen, inputVars, appVars, accessToken, serviceSignedIn,
                 storedToken, storedExpiry, runs, lastFailure>>

\* the user picks another category for a calendar on screen
handleCategoryChange ==
  /\ rendered[1].isSignedIn
  /\ \E k \in 1..Len(rendered[1].allCalendars) : \E category \in {Inactive, Fungible, Task} :
       LET calendarId == rendered[1].allCalendars[k].id
       IN  /\ category # CategoryIn(calendarCategories, calendarId)
           /\ calendarCategories' =
                [ c \in DOMAIN calendarCategories \cup {calendarId} |->
                    IF c = calendarId THEN category ELSE calendarCategories[c] ]
  /\ lastFailure' = None
  /\ UNCHANGED <<restOfScreen, isSignedIn, isLoading, error, processedData, allCalendars,
                 accessToken, serviceSignedIn, storedToken, storedExpiry, runs>>
  /\ Commit

\* the user clicks Sign Out, which is enabled on screen
ClickSignOut ==
  /\ rendered[1].isSignedIn
  /\ ~rendered[1].isLoading
  /\ signOut
  /\ lastFailure' = None
  /\ UNCHANGED <<restOfScreen, isLoading, runs>>
  /\ Commit

NextApp ==
  \/ ClickRunAnalysis
  \/ AutoRunTimerFires
  \/ FetchResolves
  \/ FetchThrows
  \/ Render
  \/ handleCategoryChange
  \/ ClickSignOut

SpecApp == InitApp /\ [][NextApp]_vars

----------------------------------------------------------------------------
(* Properties of the app on screen *)

\* C24: a run that fails because fetching a calendar's events throws is not
\* retried: once the failure is reported, no run is started by the auto-run
\* timer until the user triggers Run Analysis or an input (calendars,
\* categories, configuration, sign-in state) changes
C24_Claim == [][ AutoRunTimerFires => lastFailure = None ]_vars

\* C25: in every reachable state of the app, if the user is signed out then
\* processedData is null: a run in flight at sign-out never publishes its
\* Report after the sign-out cleared the state
C25_Claim == ~isSignedIn => processedData = None

\* C26: at most one run of processCalendarData is in flight at any time
C26_Claim == Len(runs) <= 1

====
